---- MODULE Spec2Model ----
(***************************************************************************)
(* Transfer-function model of the volume-rendering editor:                 *)
(*   - the control-point curve of BaseTransferFunction and its mutators,   *)
(*   - the parametric widgets of widget_factory.py,                        *)
(*   - the compositing and LUT sampling of UnifiedTFCanvas.                *)
(*                                                                         *)
(* Numbers.  Positions are integers in units of 1/(2*NumBins) of an        *)
(* intensity step, so that the histogram bin centres (i+0.5)*255/256 are   *)
(* exact.  Opacities are exact rationals [num, den] in lowest terms; the    *)
(* program's floating-point sums and products are taken without rounding.  *)
(* np.exp and the square root are tabulated (ExpNeg, RSqrt).               *)
(* Colors are RGB triples in tenths.                                       *)
(***************************************************************************)
EXTENDS Integers, Sequences, FiniteSets, Bags, TLC

VARIABLES
    points_x, points_y, colors,  \* BaseTransferFunction control points
    notified,                    \* the last call reached _notify_app
    sent,                        \* what that call handed to the listener
    lastOp,                      \* the last call and its arguments
    saved_tfs,                   \* TFManager.saved_tfs: name -> curve
    data, gradient_data,         \* UnifiedTFCanvas.data / gradient_data
    widgets,                     \* UnifiedTFCanvas.widgets
    query, combined,             \* calculate_combined_opacity on the current
                                 \* widget list: last arguments and result
    lut, prev_lut,               \* the two latest sample_for_vtk results on
                                 \* the current widget list and data
    fresh_calls,                 \* sample_for_vtk calls since the last change
    sampled,                     \* the indices the latest call drew
    log_scale,                   \* log_toggle_checkbox.isChecked()
    probe,                       \* a data position, where it is displayed,
                                 \* and the data position read back there
    selected_index, dragging,    \* plot_canvas: the point being dragged
    histogram_scaling,           \* plot_canvas: a drag in the left margin
    cached_xlim,                 \* _cached_xlim of plot_canvas and tf2d_canvas
    tf2d,                        \* tf2d_canvas control points
    tf_change_source,            \* VolumeApp._tf_change_source
    active_tf_system,            \* VolumeApp._active_tf_system
    active_widget,               \* UnifiedTFCanvas.active_widget
    dragging_widget,             \* UnifiedTFCanvas.dragging_widget
    widget_list,                 \* WidgetManager.widget_list: the index each
                                 \* item stores
    selected_item,               \* the selected row of widget_list
    current_widget               \* WidgetManager.current_widget

curveVars == <<points_x, points_y, colors, notified, sent, lastOp, saved_tfs>>
dataVars == <<data, gradient_data>>
widgetVars == <<widgets, query, combined>>
lutVars == <<lut, prev_lut, fresh_calls, sampled>>
plotVars == <<log_scale, probe>>
editVars == <<selected_index, dragging, histogram_scaling, cached_xlim>>
syncVars == <<tf2d, tf_change_source>>
canvasVars == <<active_widget, dragging_widget>>
managerVars == <<widget_list, selected_item, current_widget>>
restVars == <<editVars, active_tf_system, canvasVars, managerVars>>
uiVars == <<syncVars, restVars>>
pointVars == <<curveVars, plotVars, syncVars, editVars, active_tf_system>>
vars == <<curveVars, dataVars, widgetVars, lutVars, plotVars, uiVars>>

----------------------------------------------------------------------------
(* Bounds of the model *)

MaxLen == 3        \* longest control-point curve explored

MaxWidgets == 2    \* longest widget list explored

SampleCap == 2     \* subsample cap of the LUT sampler, scaled from 5000 to
                   \* the model's datasets of three and four points

ScrollDenCap == 3  \* largest denominator of a view limit that is zoomed further

----------------------------------------------------------------------------
(* Exact rational arithmetic for opacities *)

Abs(n) == IF n < 0 THEN 0 - n ELSE n

Min2(a, b) == IF a <= b THEN a ELSE b

Max2(a, b) == IF a >= b THEN a ELSE b

RECURSIVE GCD(_, _)
GCD(a, b) == IF b = 0 THEN a ELSE GCD(b, a % b)

R(n, d) ==
    LET s == IF d < 0 THEN 0 - 1 ELSE 1
        g == GCD(Abs(n), Abs(d))
    IN  [num |-> (s * n) \div g, den |-> (s * d) \div g]

RZero == [num |-> 0, den |-> 1]

ROne == [num |-> 1, den |-> 1]

RInt(n) == [num |-> n, den |-> 1]

RAdd(a, b) ==
    LET g == GCD(a.den, b.den)
    IN  R(a.num * (b.den \div g) + b.num * (a.den \div g), a.den * (b.den \div g))

RNeg(a) == [num |-> 0 - a.num, den |-> a.den]

RSub(a, b) == RAdd(a, RNeg(b))

RMul(a, b) ==
    LET g1 == GCD(Abs(a.num), b.den)
        g2 == GCD(Abs(b.num), a.den)
    IN  R((a.num \div g1) * (b.num \div g2), (a.den \div g2) * (b.den \div g1))

RDiv(a, b) == RMul(a, R(b.den, b.num))

RLe(a, b) == a.num * b.den <= b.num * a.den

RLt(a, b) == a.num * b.den < b.num * a.den

RMax(a, b) == IF RLe(b, a) THEN a ELSE b

RMin(a, b) == IF RLe(a, b) THEN a ELSE b

InUnit(a) == RLe(RZero, a) /\ RLe(a, ROne)

----------------------------------------------------------------------------
(* The fixed domain *)

NumBins == 256

PosUnits == 2 * NumBins

Pos(v) == v * PosUnits

XMin == Pos(0)

XMax == Pos(255)

White == <<10, 10, 10>>

Red == <<10, 0, 0>>

NoColor == <<>>

----------------------------------------------------------------------------
(* Control-point curve: BaseTransferFunction *)

Triple(xs, ys, cs, i) == [x |-> xs[i], y |-> ys[i], c |-> cs[i]]

Zip(xs, ys, cs) ==
    [i \in 1..Min2(Len(xs), Min2(Len(ys), Len(cs))) |-> Triple(xs, ys, cs, i)]

RECURSIVE InsertByX(_, _)
InsertByX(s, p) ==
    IF s = <<>> THEN <<p>>
    ELSE IF Head(s).x <= p.x THEN <<Head(s)>> \o InsertByX(Tail(s), p)
    ELSE <<p>> \o s

RECURSIVE SortedFrom(_, _)
SortedFrom(rest, acc) ==
    IF rest = <<>> THEN acc
    ELSE SortedFrom(Tail(rest), InsertByX(acc, Head(rest)))

StableSortByX(s) == SortedFrom(s, <<>>)

Curve(zipped) ==
    [xs |-> [i \in 1..Len(zipped) |-> zipped[i].x],
     ys |-> [i \in 1..Len(zipped) |-> zipped[i].y],
     cs |-> [i \in 1..Len(zipped) |-> zipped[i].c]]

\* Faulty variant: sorts the positions alone, leaving opacities and colors in place.
sort_points_with_colors_xonly(xs, ys, cs) ==
    IF xs # <<>>
    THEN LET zipped == StableSortByX(Zip(xs, ys, cs))
         IN  [xs |-> [i \in 1..Len(zipped) |-> zipped[i].x], ys |-> ys, cs |-> cs]
    ELSE [xs |-> xs, ys |-> ys, cs |-> cs]

sort_points_with_colors(xs, ys, cs) ==
    IF xs # <<>>
    THEN Curve(StableSortByX(Zip(xs, ys, cs)))
    ELSE [xs |-> xs, ys |-> ys, cs |-> cs]

RemoveAt(s, i) == [j \in 1..(Len(s) - 1) |-> IF j < i THEN s[j] ELSE s[j + 1]]

Op(name, index, x, y, c) == [op |-> name, index |-> index, x |-> x, y |-> y, c |-> c]

\* An index or position the call does not have, and an opacity it does not
\* have; a color it does not have is NoColor.
NoArg == 0 - 1

NoOpacity == [num |-> 0, den |-> 0]

AddPoint(xs, ys, cs, x, y, color) ==
    sort_points_with_colors(
        Append(xs, x), Append(ys, y),
        Append(cs, IF color = NoColor THEN White ELSE color))

\* Faulty variant: the range check without the endpoint exclusion.
RemovePointGuard_noendpoints(index, n) == 0 <= index /\ index < n

RemovePointGuard(index, n) ==
    0 <= index /\ index < n /\ index \notin {0, n - 1}

UpdatePoint(xs, ys, cs, index, x, y) ==
    LET xl == IF index = 0 THEN XMin
              ELSE IF index = Len(xs) - 1 THEN XMax
              ELSE x
    IN  sort_points_with_colors(
            [xs EXCEPT ![index + 1] = xl], [ys EXCEPT ![index + 1] = y], cs)

----------------------------------------------------------------------------
(* Datasets and curve creation: TFManager *)

\* setup_fallback_data: all zeros, and fewer points than the subsample cap.
FallbackData == [i |-> <<0, 0>>, g |-> <<0, 0>>]

\* Loaded data is normalised to [0, 255]: unless constant it holds 0 and 255.
CurveDatasets ==
    { FallbackData,
      [i |-> <<0, 255, 255>>, g |-> <<0, 40, 255>>] }

SampleDatasets ==
    { FallbackData,
      [i |-> <<0, 128, 255>>, g |-> <<0, 128, 255>>],
      [i |-> <<0, 120, 195, 255>>, g |-> <<0, 80, 80, 255>>] }

BinOf(v) == IF v = 255 THEN NumBins - 1 ELSE (v * NumBins) \div 255

Hist(d, b) == Cardinality({k \in 1..Len(d) : d[k] >= 0 /\ d[k] <= 255 /\ BinOf(d[k]) = b})

HistMax(d) ==
    LET counts == {Hist(d, b) : b \in 0..(NumBins - 1)}
    IN  CHOOSE m \in counts : \A c \in counts : c <= m

Peaks(d) == {b \in 0..(NumBins - 1) : 20 * Hist(d, b) > HistMax(d)}

RECURSIVE Ascending(_)
Ascending(S) ==
    IF S = {} THEN <<>>
    ELSE LET m == CHOOSE a \in S : \A b \in S : a <= b
         IN  <<m>> \o Ascending(S \ {m})

BinCenter(b) == (2 * b + 1) * 255

DefaultCurve ==
    [xs |-> <<XMin, XMax>>, ys |-> <<RZero, ROne>>, cs |-> <<White, White>>]

create_default_tf(d) ==
    LET peaks == Ascending(Peaks(d))
    IN  IF Len(peaks) < 2
        THEN DefaultCurve
        ELSE [xs |-> [k \in 1..Len(peaks) |-> BinCenter(peaks[k])],
              ys |-> [k \in 1..Len(peaks) |->
                         RMax(RZero, RMin(ROne, R(Hist(d, peaks[k]), HistMax(d))))],
              cs |-> [k \in 1..Len(peaks) |-> White]]

RampCurve ==
    [xs |-> <<XMin, Pos(100), XMax>>,
     ys |-> <<RZero, R(1, 2), ROne>>,
     cs |-> <<White, Red, White>>]

SavedChoices ==
    { [n \in {} |-> DefaultCurve],
      [n \in {"Default"} |-> RampCurve] }

get_initial_tf_data(saved, d) ==
    IF "Default" \in DOMAIN saved THEN saved["Default"]
    ELSE IF DOMAIN saved # {} THEN saved[CHOOSE n \in DOMAIN saved : TRUE]
    ELSE create_default_tf(d)

----------------------------------------------------------------------------
(* Inputs of the curve mutators *)

AddInputs ==
    { <<Pos(0 - 5), R(1, 2), NoColor>>,
      <<Pos(100), R(3, 2), Red>>,
      <<Pos(300), R(1, 2), NoColor>> }

IndexInputs == (0 - 1)..Len(points_x)

ValidIndex(i) == 0 <= i /\ i < Len(points_x)

\* One position and opacity stand for all of them when the index is outside
\* the curve, where update_point reads neither.  A position below the range
\* stands for the ones outside it: update_point treats both sides alike, and
\* add_point brings positions above 255 into the curve.
MoveInputs(i) ==
    IF ValidIndex(i)
    THEN { <<Pos(0 - 5), R(1, 2)>>, <<Pos(100), R(3, 2)>> }
    ELSE { <<Pos(100), R(1, 2)>> }

----------------------------------------------------------------------------
(* Curve actions *)

\* No notification: the listener was handed nothing.
NoNote == <<>>

\* TransferFunctionPlot._notify_app: the listener is called with the three
\* lists as they are at the time of the call.
notify_app(xs, ys, cs) == <<xs, ys, cs>>

(* The two curve editors and the application between them: volume_app.py *)

\* None, for a field that holds an index.
NoIndex == 0 - 1

\* None, for _tf_change_source.
NoSource == "None"

set_tf_state(xs, ys, cs) == sort_points_with_colors(xs, ys, cs)

\* The curves of plot_canvas and tf2d_canvas after update_opacity_function:
\* nothing unless the point system is active; from the 1D plot the 2D canvas
\* is set, from another caller both are.
update_opacity_function(system, source, plot, t2, xs, ys, cs) ==
    IF system # "point" THEN [plot |-> plot, tf2d |-> t2]
    ELSE IF source = "1d" THEN [plot |-> plot, tf2d |-> set_tf_state(xs, ys, cs)]
    ELSE IF source = "2d" THEN [plot |-> plot, tf2d |-> t2]
    ELSE [plot |-> sort_points_with_colors(xs, ys, cs),
          tf2d |-> set_tf_state(xs, ys, cs)]

\* The listener of plot_canvas.
update_opacity_function_from_1d(system, source, plot, t2, xs, ys, cs) ==
    IF source = "2d" THEN [plot |-> plot, tf2d |-> t2, source |-> source]
    ELSE LET r == update_opacity_function(system, "1d", plot, t2, xs, ys, cs)
         IN  [plot |-> r.plot, tf2d |-> r.tf2d, source |-> NoSource]

\* plot_canvas._notify_app ran with these lists.
SyncFrom1d(xs, ys, cs) ==
    LET r == update_opacity_function_from_1d(
                 active_tf_system, tf_change_source,
                 [xs |-> xs, ys |-> ys, cs |-> cs], tf2d, xs, ys, cs)
    IN  tf2d' = r.tf2d /\ tf_change_source' = r.source

CurveInit(d) ==
    /\ data = d.i
    /\ gradient_data = d.g
    /\ LET tf == get_initial_tf_data(saved_tfs, d.i)
           c == sort_points_with_colors(tf.xs, tf.ys, tf.cs)
       IN  points_x = c.xs /\ points_y = c.ys /\ colors = c.cs
    /\ notified = FALSE
    /\ sent = NoNote
    /\ lastOp = Op("init", NoArg, NoArg, NoOpacity, NoColor)

add_point(x, y, color) ==
    /\ Len(points_x) < MaxLen
    /\ LET c == AddPoint(points_x, points_y, colors, x, y, color)
       IN  /\ points_x' = c.xs /\ points_y' = c.ys /\ colors' = c.cs
           /\ sent' = notify_app(c.xs, c.ys, c.cs)
           /\ SyncFrom1d(c.xs, c.ys, c.cs)
    /\ notified' = TRUE
    /\ lastOp' = Op("add_point", NoArg, x, y, IF color = NoColor THEN White ELSE color)
    /\ UNCHANGED <<saved_tfs, dataVars, widgetVars, lutVars, plotVars, restVars>>

remove_point(index) ==
    /\ IF RemovePointGuard(index, Len(points_x))
       THEN /\ points_x' = RemoveAt(points_x, index + 1)
            /\ points_y' = RemoveAt(points_y, index + 1)
            /\ colors' = RemoveAt(colors, index + 1)
            /\ notified' = TRUE
            /\ sent' = notify_app(points_x', points_y', colors')
            /\ SyncFrom1d(points_x', points_y', colors')
       ELSE /\ UNCHANGED <<points_x, points_y, colors>>
            /\ notified' = FALSE
            /\ sent' = NoNote
            /\ UNCHANGED syncVars
    /\ lastOp' = Op("remove_point", index, NoArg, NoOpacity, NoColor)
    /\ UNCHANGED <<saved_tfs, dataVars, widgetVars, lutVars, plotVars, restVars>>

\* update_point as a handler calls it: the handler's own fields are left to
\* the handler.
update_point_call(index, x, y) ==
    /\ IF 0 <= index /\ index < Len(points_x)
       THEN /\ LET c == UpdatePoint(points_x, points_y, colors, index, x, y)
               IN  /\ points_x' = c.xs /\ points_y' = c.ys /\ colors' = c.cs
                   /\ sent' = notify_app(c.xs, c.ys, c.cs)
                   /\ SyncFrom1d(c.xs, c.ys, c.cs)
            /\ notified' = TRUE
       ELSE /\ UNCHANGED <<points_x, points_y, colors>>
            /\ notified' = FALSE
            /\ sent' = NoNote
            /\ UNCHANGED syncVars
    /\ lastOp' = Op("update_point", index, x, y, NoColor)
    /\ UNCHANGED <<saved_tfs, dataVars, widgetVars, lutVars, plotVars,
                   active_tf_system, canvasVars, managerVars>>

update_point(index, x, y) == update_point_call(index, x, y) /\ UNCHANGED editVars

\* Faulty variant: a recolor that redraws but does not call the listener.
update_point_color_silent(index, color) ==
    /\ IF 0 <= index /\ index < Len(colors)
       THEN colors' = [colors EXCEPT ![index + 1] = color]
       ELSE UNCHANGED colors
    /\ notified' = FALSE
    /\ sent' = NoNote
    /\ UNCHANGED syncVars
    /\ lastOp' = Op("update_point_color", index, NoArg, NoOpacity, color)
    /\ UNCHANGED <<points_x, points_y, saved_tfs, dataVars, widgetVars, lutVars, plotVars, restVars>>

update_point_color(index, color) ==
    /\ IF 0 <= index /\ index < Len(colors)
       THEN /\ colors' = [colors EXCEPT ![index + 1] = color]
            /\ notified' = TRUE
            /\ sent' = notify_app(points_x, points_y, colors')
            /\ SyncFrom1d(points_x, points_y, colors')
       ELSE /\ UNCHANGED colors
            /\ notified' = FALSE
            /\ sent' = NoNote
            /\ UNCHANGED syncVars
    /\ lastOp' = Op("update_point_color", index, NoArg, NoOpacity, color)
    /\ UNCHANGED <<points_x, points_y, saved_tfs, dataVars, widgetVars, lutVars, plotVars, restVars>>

load_selected_tf(name) ==
    /\ name \in DOMAIN saved_tfs
    /\ LET tf == saved_tfs[name]
           c == sort_points_with_colors(tf.xs, tf.ys, tf.cs)
       IN  points_x' = c.xs /\ points_y' = c.ys /\ colors' = c.cs
    /\ notified' = FALSE
    /\ sent' = NoNote
    /\ UNCHANGED syncVars
    /\ lastOp' = Op("load_selected_tf", NoArg, NoArg, NoOpacity, NoColor)
    /\ UNCHANGED <<saved_tfs, dataVars, widgetVars, lutVars, plotVars, restVars>>

----------------------------------------------------------------------------
(* Parametric widgets: widget_factory.py *)

\* A widget is one record for all five classes.  intensity_size and
\* gradient_size hold the class's two extents (intensity_std / gradient_std,
\* intensity_width / gradient_height, intensity_radius / gradient_radius);
\* a field the class does not have holds the filler written in its defaults.
IntensityParam(widget_type) ==
    CASE widget_type = "gaussian" -> "intensity_std"
      [] widget_type = "ellipsoid" -> "intensity_radius"
      [] OTHER -> "intensity_width"

GradientParam(widget_type) ==
    CASE widget_type = "gaussian" -> "gradient_std"
      [] widget_type = "ellipsoid" -> "gradient_radius"
      [] OTHER -> "gradient_height"

ClassDefaults(widget_type) ==
    LET base == [widget_type |-> widget_type,
                 center_intensity |-> 128, center_gradient |-> 128,
                 opacity |-> ROne, color |-> White, blend_mode |-> "max",
                 intensity_size |-> 50, gradient_size |-> 50,
                 falloff |-> RZero, falloff_power |-> ROne,
                 direction |-> "symmetric"]
    IN  CASE widget_type = "gaussian" ->
               [base EXCEPT !.intensity_size = 30, !.gradient_size = 30,
                            !.falloff_power = RInt(2)]
          [] widget_type = "triangular" -> base
          [] widget_type = "rectangular" ->
               [base EXCEPT !.intensity_size = 40, !.gradient_size = 40,
                            !.falloff = RInt(5)]
          [] widget_type = "ellipsoid" ->
               [base EXCEPT !.intensity_size = 30, !.gradient_size = 30]
          [] widget_type = "diamond" -> base

get_preset(widget_type, preset_name, w) ==
    IF widget_type # "gaussian" THEN w
    ELSE CASE preset_name = "soft_tissue" ->
                [w EXCEPT !.center_intensity = 120, !.center_gradient = 80,
                          !.intensity_size = 25, !.gradient_size = 30,
                          !.opacity = R(6, 10), !.color = <<8, 8, 10>>]
           [] preset_name = "bone" ->
                [w EXCEPT !.center_intensity = 200, !.center_gradient = 150,
                          !.intensity_size = 15, !.gradient_size = 20,
                          !.opacity = R(9, 10), !.color = <<10, 10, 8>>]
           [] preset_name = "vessels" ->
                [w EXCEPT !.center_intensity = 80, !.center_gradient = 180,
                          !.intensity_size = 10, !.gradient_size = 8,
                          !.opacity = R(7, 10), !.color = <<10, 8, 8>>]
           [] OTHER -> w

\* The constructors floor the extents at 1 and the rectangle's falloff at 0.
create_widget(widget_type, preset_name) ==
    LET config == get_preset(widget_type, preset_name, ClassDefaults(widget_type))
    IN  [config EXCEPT !.intensity_size = Max2(1, config.intensity_size),
                       !.gradient_size = Max2(1, config.gradient_size),
                       !.falloff = RMax(RZero, config.falloff)]

\* The entries of WidgetManagerUI.preset_combo.
PresetCombo ==
    { <<"gaussian", "soft_tissue">>, <<"gaussian", "bone">>,
      <<"gaussian", "vessels">>, <<"gaussian", "none">>,
      <<"triangular", "none">>, <<"rectangular", "none">>,
      <<"ellipsoid", "none">>, <<"diamond", "none">> }

Clamp(lo, v, hi) == Max2(lo, Min2(hi, v))

RClamp(lo, v, hi) == RMax(lo, RMin(hi, v))

set_parameter(w, name, value) ==
    CASE name = "center_intensity" -> [w EXCEPT !.center_intensity = Clamp(0, value, 255)]
      [] name = "center_gradient" -> [w EXCEPT !.center_gradient = Clamp(0, value, 255)]
      [] name = "opacity" -> [w EXCEPT !.opacity = RClamp(RZero, value, ROne)]
      [] name = "blend_mode" -> [w EXCEPT !.blend_mode = value]
      [] name = IntensityParam(w.widget_type) -> [w EXCEPT !.intensity_size = Max2(1, value)]
      [] name = GradientParam(w.widget_type) -> [w EXCEPT !.gradient_size = Max2(1, value)]
      [] name = "falloff_power" /\ w.widget_type \in {"gaussian", "ellipsoid"} ->
            [w EXCEPT !.falloff_power = RMax(R(1, 10), value)]
      [] name = "falloff" /\ w.widget_type = "rectangular" ->
            [w EXCEPT !.falloff = RMax(RZero, value)]
      [] name = "direction" /\ w.widget_type = "triangular" ->
            [w EXCEPT !.direction = value]
      [] OTHER -> w

\* np.exp(-t) for t >= 0, tabulated: t is cut to quarters and the value
\* rounded to 1/64.
ExpTable == <<64, 50, 39, 30, 24, 18, 14, 11, 9, 7, 5, 4, 3, 2, 2, 2, 1, 1, 1, 1>>

ExpNeg(t) ==
    LET k == (4 * t.num) \div t.den
    IN  IF k < Len(ExpTable) THEN R(ExpTable[k + 1], 64) ELSE RZero

ISqrt(n) == CHOOSE k \in 0..(n + 1) : k * k <= n /\ n < (k + 1) * (k + 1)

\* The square root of a rational in [0, 4], cut to 1/16.
RSqrt(r) == R(ISqrt((256 * r.num) \div r.den), 16)

\* distance ** falloff_power for the powers the model sets: 1 and 2.
Power(distance, falloff_power) ==
    IF falloff_power = RInt(2) THEN RMul(distance, distance) ELSE distance

GaussianOpacity(w, intensity, gradient) ==
    LET dx == R(intensity - w.center_intensity, w.intensity_size)
        dy == R(gradient - w.center_gradient, w.gradient_size)
        distance_sq == RAdd(RMul(dx, dx), RMul(dy, dy))
    IN  RMul(w.opacity, ExpNeg(RDiv(distance_sq, RInt(2))))

TriangularOpacity(w, intensity, gradient) ==
    LET dx == R(2 * Abs(intensity - w.center_intensity), w.intensity_size)
        dy == R(2 * Abs(gradient - w.center_gradient), w.gradient_size)
        up == R(2 * (gradient - w.center_gradient), w.gradient_size)
        down == R(2 * (w.center_gradient - gradient), w.gradient_size)
    IN  IF w.direction = "up"
        THEN IF gradient < w.center_gradient THEN RZero
             ELSE IF RLt(ROne, dx) \/ RLt(ROne, up) THEN RZero
             ELSE RMul(w.opacity, RMax(RZero, RSub(RSub(ROne, dx), up)))
        ELSE IF w.direction = "down"
        THEN IF gradient > w.center_gradient THEN RZero
             ELSE IF RLt(ROne, dx) \/ RLt(ROne, down) THEN RZero
             ELSE RMul(w.opacity, RMax(RZero, RSub(RSub(ROne, dx), down)))
        ELSE IF RLt(ROne, RAdd(dx, dy)) THEN RZero
             ELSE RMul(w.opacity, RMax(RZero, RSub(RSub(ROne, dx), dy)))

RectangularOpacity(w, intensity, gradient) ==
    LET half_width == R(w.intensity_size, 2)
        half_height == R(w.gradient_size, 2)
        reach == RMax(ROne, w.falloff)
        dist_x == RDiv(RMax(RZero, RSub(RInt(Abs(intensity - w.center_intensity)), half_width)), reach)
        dist_y == RDiv(RMax(RZero, RSub(RInt(Abs(gradient - w.center_gradient)), half_height)), reach)
        max_dist == RMax(dist_x, dist_y)
    IN  IF RLe(max_dist, ROne)
        THEN RMul(w.opacity, RSub(ROne, max_dist))
        ELSE RZero

EllipsoidOpacity(w, intensity, gradient) ==
    IF \/ Abs(intensity - w.center_intensity) > w.intensity_size
       \/ Abs(gradient - w.center_gradient) > w.gradient_size
    THEN RZero
    ELSE LET dx == R(intensity - w.center_intensity, w.intensity_size)
             dy == R(gradient - w.center_gradient, w.gradient_size)
             distance == RSqrt(RAdd(RMul(dx, dx), RMul(dy, dy)))
         IN  IF RLt(ROne, distance) THEN RZero
             ELSE RMul(w.opacity, RMax(RZero, RSub(ROne, Power(distance, w.falloff_power))))

DiamondOpacity(w, intensity, gradient) ==
    IF \/ 2 * Abs(intensity - w.center_intensity) > w.intensity_size
       \/ 2 * Abs(gradient - w.center_gradient) > w.gradient_size
    THEN RZero
    ELSE LET dx == R(2 * Abs(intensity - w.center_intensity), w.intensity_size)
             dy == R(2 * Abs(gradient - w.center_gradient), w.gradient_size)
         IN  IF RLt(ROne, RAdd(dx, dy)) THEN RZero
             ELSE RMul(w.opacity, RMax(RZero, RSub(ROne, RAdd(dx, dy))))

calculate_opacity(w, intensity, gradient) ==
    CASE w.widget_type = "gaussian" -> GaussianOpacity(w, intensity, gradient)
      [] w.widget_type = "triangular" -> TriangularOpacity(w, intensity, gradient)
      [] w.widget_type = "rectangular" -> RectangularOpacity(w, intensity, gradient)
      [] w.widget_type = "ellipsoid" -> EllipsoidOpacity(w, intensity, gradient)
      [] w.widget_type = "diamond" -> DiamondOpacity(w, intensity, gradient)

----------------------------------------------------------------------------
(* Compositing: UnifiedTFCanvas.calculate_combined_opacity *)

\* Faulty variants of BlendStep: add assigning instead of accumulating,
\* multiply without the complement, multiply as a plain product.
BlendStep_addOverwrites(blend_mode, final_opacity, widget_opacity) ==
    IF blend_mode = "add" THEN widget_opacity
    ELSE IF blend_mode = "multiply"
    THEN RAdd(RMul(final_opacity, RSub(ROne, widget_opacity)), widget_opacity)
    ELSE RMax(final_opacity, widget_opacity)

BlendStep_mulNoComplement(blend_mode, final_opacity, widget_opacity) ==
    IF blend_mode = "add" THEN RAdd(final_opacity, widget_opacity)
    ELSE IF blend_mode = "multiply"
    THEN RAdd(RMul(final_opacity, widget_opacity), widget_opacity)
    ELSE RMax(final_opacity, widget_opacity)

BlendStep_mulProduct(blend_mode, final_opacity, widget_opacity) ==
    IF blend_mode = "add" THEN RAdd(final_opacity, widget_opacity)
    ELSE IF blend_mode = "multiply" THEN RMul(final_opacity, widget_opacity)
    ELSE RMax(final_opacity, widget_opacity)

BlendStep(blend_mode, final_opacity, widget_opacity) ==
    IF blend_mode = "add" THEN RAdd(final_opacity, widget_opacity)
    ELSE IF blend_mode = "multiply"
    THEN RAdd(RMul(final_opacity, RSub(ROne, widget_opacity)), widget_opacity)
    ELSE RMax(final_opacity, widget_opacity)

RECURSIVE BlendFrom(_, _, _, _)
BlendFrom(ws, final_opacity, intensity, gradient) ==
    IF ws = <<>> THEN final_opacity
    ELSE BlendFrom(Tail(ws),
                   BlendStep(Head(ws).blend_mode, final_opacity,
                             calculate_opacity(Head(ws), intensity, gradient)),
                   intensity, gradient)

\* Faulty variant: the result returned without min(1.0, ...).
calculate_combined_opacity_noclamp(ws, intensity, gradient) ==
    IF ws = <<>> THEN RZero
    ELSE BlendFrom(ws, RZero, intensity, gradient)

calculate_combined_opacity(ws, intensity, gradient) ==
    IF ws = <<>> THEN RZero
    ELSE RMin(ROne, BlendFrom(ws, RZero, intensity, gradient))

----------------------------------------------------------------------------
(* LUT sampling: UnifiedTFCanvas.sample_for_vtk *)

LutSize == 256

\* A widget counts at a data point when its opacity there exceeds 0.01.
AffectThreshold == R(1, 100)

EmptyTable ==
    [intensity_opacity |-> [b \in 0..(LutSize - 1) |-> RZero],
     intensity_color |-> [b \in 0..(LutSize - 1) |-> White]]

\* Faulty variant: a later widget that only equals the slot's opacity takes
\* the slot's color.
SamplePoint_lastWins(tab, w, d, g, idx) ==
    LET data_intensity == d[idx]
        opacity == calculate_opacity(w, data_intensity, g[idx])
    IN  IF /\ RLt(AffectThreshold, opacity)
           /\ RLe(tab.intensity_opacity[data_intensity], opacity)
        THEN [intensity_opacity |->
                  [tab.intensity_opacity EXCEPT ![data_intensity] = opacity],
              intensity_color |->
                  [tab.intensity_color EXCEPT ![data_intensity] = w.color]]
        ELSE tab

SamplePoint(tab, w, d, g, idx) ==
    LET data_intensity == d[idx]
        opacity == calculate_opacity(w, data_intensity, g[idx])
    IN  IF /\ RLt(AffectThreshold, opacity)
           /\ RLt(tab.intensity_opacity[data_intensity], opacity)
        THEN [intensity_opacity |->
                  [tab.intensity_opacity EXCEPT ![data_intensity] = opacity],
              intensity_color |->
                  [tab.intensity_color EXCEPT ![data_intensity] = w.color]]
        ELSE tab

RECURSIVE SamplePoints(_, _, _, _, _)
SamplePoints(tab, w, d, g, indices) ==
    IF indices = <<>> THEN tab
    ELSE SamplePoints(SamplePoint(tab, w, d, g, Head(indices)), w, d, g, Tail(indices))

RECURSIVE SampleWidgets(_, _, _, _, _)
SampleWidgets(tab, ws, d, g, indices) ==
    IF ws = <<>> THEN tab
    ELSE SampleWidgets(SamplePoints(tab, Head(ws), d, g, indices), Tail(ws), d, g, indices)

\* Faulty variant: only the slots some widget touched are emitted.
create_vtk_samples_touched(tab) ==
    LET touched == Ascending({b \in 0..(LutSize - 1) : tab.intensity_opacity[b] # RZero})
    IN  [k \in 1..Len(touched) |->
            <<touched[k], tab.intensity_opacity[touched[k]], tab.intensity_color[touched[k]]>>]

create_vtk_samples(tab) ==
    [k \in 1..LutSize |->
        <<k - 1, tab.intensity_opacity[k - 1], tab.intensity_color[k - 1]>>]

sample_size(d) == Min2(SampleCap, Len(d))

\* What np.random.choice(len(data), sample_size, replace=False) can return:
\* every arrangement of sample_size distinct indices.
RandomChoices(n, k) ==
    {s \in [1..k -> 1..n] : \A a, b \in 1..k : a # b => s[a] # s[b]}

sample_for_vtk_data_driven(ws, d, g, indices) ==
    create_vtk_samples(SampleWidgets(EmptyTable, ws, d, g, indices))

----------------------------------------------------------------------------
(* Inputs of the widget operations *)

PresetInputs ==
    { <<"gaussian", "soft_tissue">>, <<"gaussian", "none">>,
      <<"triangular", "none">>, <<"rectangular", "none">>,
      <<"ellipsoid", "none">>, <<"diamond", "none">> }

\* Values of the opacity spin box (one of them beyond its range) and the
\* options of the blend-mode combo box.
FloatInputs == { <<"opacity", R(1, 2)>>, <<"opacity", R(3, 2)>> }

ComboInputs == { <<"blend_mode", "max">>, <<"blend_mode", "add">>, <<"blend_mode", "multiply">> }

SamplerPresetInputs ==
    { <<"gaussian", "soft_tissue">>, <<"gaussian", "none">>, <<"rectangular", "none">> }

LutColorPresetInputs == { <<"gaussian", "none">>, <<"rectangular", "none">> }

ColorInputs == { Red }

\* Normalised data with one point at the center of the default widgets.
LutColorDataset == [i |-> <<0, 128, 255>>, g |-> <<0, 128, 255>>]

LutBlendInputs == { <<"blend_mode", "multiply">> }

Queries == { <<128, 128>>, <<138, 133>> }

NoQuery == <<>>

NoTable == <<>>

----------------------------------------------------------------------------
(* Widget and sampler actions *)

\* A change of the widget list or of a widget: the results of earlier calls
\* are no longer results on the current list.
WidgetsChanged ==
    /\ query' = NoQuery
    /\ combined' = RZero
    /\ lut' = NoTable
    /\ prev_lut' = NoTable
    /\ fresh_calls' = 0
    /\ sampled' = <<>>

\* update_widget_list: one item per widget of the canvas, which stores the
\* widget's index.
update_widget_list(ws) == [i \in 1..Len(ws) |-> i - 1]

\* current_widget refers to a widget object: the model holds the index the
\* object has in the canvas list, NoIndex for None, and Removed for an object
\* that is no longer in the list.
Removed == 0 - 2

\* The reference after the list was emptied.
AfterClear(ref) == IF ref = NoIndex THEN NoIndex ELSE Removed

add_preset_widget(widget_type, preset_name) ==
    /\ Len(widgets) < MaxWidgets
    /\ <<widget_type, preset_name>> \in PresetCombo
    /\ widgets' = Append(widgets, create_widget(widget_type, preset_name))
    /\ WidgetsChanged
    /\ widget_list' = update_widget_list(widgets')
    /\ selected_item' = NoIndex
    /\ UNCHANGED current_widget
    /\ UNCHANGED <<pointVars, dataVars, canvasVars>>

\* current_widget is the widget at the selected row of the widget list.
on_float_spinbox_changed(index, name, value) ==
    /\ index \in 1..Len(widgets)
    /\ widgets' = [widgets EXCEPT ![index] = set_parameter(widgets[index], name, value)]
    /\ WidgetsChanged
    /\ UNCHANGED <<curveVars, plotVars, uiVars, dataVars>>

on_combo_changed(index, name, value) ==
    /\ index \in 1..Len(widgets)
    /\ widgets' = [widgets EXCEPT ![index] = set_parameter(widgets[index], name, value)]
    /\ WidgetsChanged
    /\ UNCHANGED <<curveVars, plotVars, uiVars, dataVars>>

\* The color dialog returned a valid color for the selected widget.
change_widget_color(index, color) ==
    /\ index \in 1..Len(widgets)
    /\ widgets' = [widgets EXCEPT ![index].color = color]
    /\ WidgetsChanged
    /\ UNCHANGED <<curveVars, plotVars, uiVars, dataVars>>

\* The delete button of the parameter panel, for the widget at the selected
\* row: the widget leaves the canvas, the list is rebuilt and current_widget
\* is None.
delete_widget(index) ==
    /\ index \in 1..Len(widgets)
    /\ widgets' = RemoveAt(widgets, index)
    /\ WidgetsChanged
    /\ widget_list' = update_widget_list(widgets')
    /\ selected_item' = NoIndex
    /\ current_widget' = NoIndex
    /\ UNCHANGED <<pointVars, dataVars, canvasVars>>

clear_widgets ==
    /\ widgets' = <<>>
    /\ WidgetsChanged
    /\ current_widget' = AfterClear(current_widget)
    /\ UNCHANGED <<widget_list, selected_item>>
    /\ UNCHANGED <<pointVars, dataVars, canvasVars>>

combined_opacity_query(intensity, gradient) ==
    /\ query' = <<intensity, gradient>>
    /\ combined' = calculate_combined_opacity(widgets, intensity, gradient)
    /\ UNCHANGED <<curveVars, plotVars, uiVars, dataVars, widgets, lutVars>>

sample_for_vtk ==
    /\ \E indices \in RandomChoices(Len(data), sample_size(data)) :
          /\ lut' = sample_for_vtk_data_driven(widgets, data, gradient_data, indices)
          /\ sampled' = indices
    /\ prev_lut' = lut
    /\ fresh_calls' = Min2(fresh_calls + 1, 2)
    /\ UNCHANGED <<curveVars, plotVars, uiVars, dataVars, widgetVars>>

----------------------------------------------------------------------------
(* Specifications *)

(* The 1D plot: transfer_function_plot.py and the mouse handlers of
   base_transfer_function.py *)

\* log1p(x) / log1p(255) in eighths, for the x where it is a whole number of
\* eighths: x + 1 a power of two.  x is in position units.
Log2Of(n) == CHOOSE k \in 0..9 : 2 ^ k = n

Log1pRatio8(x) == Log2Of(x \div PosUnits + 1)

\* expm1(frac * log1p(255)) for frac a whole number of eighths.
Expm1Eighths(e) == Pos(2 ^ e - 1)

data_to_display(log, x) ==
    IF log THEN (XMax * Log1pRatio8(x)) \div 8 ELSE x

\* Faulty variant: exp in place of expm1.
display_to_data_exp(log, x_disp) ==
    IF log
    THEN Clamp(XMin, Pos(2 ^ ((8 * x_disp) \div XMax)), XMax)
    ELSE Clamp(XMin, x_disp, XMax)

display_to_data(log, x_disp) ==
    IF log
    THEN Clamp(XMin, Expm1Eighths((8 * x_disp) \div XMax), XMax)
    ELSE Clamp(XMin, x_disp, XMax)

get_display_coords(log, x, y) == <<data_to_display(log, x), y>>

get_data_coords(log, x_disp, y_disp) == <<display_to_data(log, x_disp), y_disp>>

\* Data positions with x + 1 a power of two, one of them beyond 255.
ProbeInputs == { Pos(0), Pos(1), Pos(3), Pos(15), Pos(127), Pos(255), Pos(511) }

ProbeOpacities == { RZero, R(1, 2), ROne }

\* _get_display_points places a point of data position (x, y) on the canvas.
draw_point(x, y) ==
    /\ probe' = << <<x, y>>, get_display_coords(log_scale, x, y) >>
    /\ UNCHANGED <<log_scale, curveVars, dataVars, widgetVars, lutVars, uiVars>>

\* _get_data_coords reads the data position under the drawn point.
read_point ==
    /\ Len(probe) = 2
    /\ probe' = Append(probe, get_data_coords(log_scale, probe[2][1], probe[2][2]))
    /\ UNCHANGED <<log_scale, curveVars, dataVars, widgetVars, lutVars, uiVars>>

\* Faulty variant: the toggle takes the stored positions for display
\* coordinates of the new mode and converts them.
toggle_log_histogram_remap ==
    /\ log_scale' = ~log_scale
    /\ points_x' = [k \in 1..Len(points_x) |->
                       display_to_data(log_scale', points_x[k])]
    /\ probe' = <<>>
    /\ notified' = FALSE
    /\ sent' = NoNote
    /\ UNCHANGED syncVars
    /\ lastOp' = Op("toggle_log_histogram", NoArg, NoArg, NoOpacity, NoColor)
    /\ UNCHANGED <<points_y, colors, saved_tfs, dataVars, widgetVars, lutVars, restVars>>

\* The checkbox changed state: the plot is drawn again, in the new mode.
toggle_log_histogram ==
    /\ log_scale' = ~log_scale
    /\ probe' = IF probe = <<>> THEN probe
                ELSE <<probe[1], get_display_coords(log_scale', probe[1][1], probe[1][2])>>
    /\ notified' = FALSE
    /\ sent' = NoNote
    /\ UNCHANGED syncVars
    /\ lastOp' = Op("toggle_log_histogram", NoArg, NoArg, NoOpacity, NoColor)
    /\ UNCHANGED <<points_x, points_y, colors, saved_tfs, dataVars, widgetVars, lutVars, restVars>>

\* Where the mouse events of the model land: on the canvas spot that shows
\* one of these data positions.
ClickTargets == { Pos(15), Pos(511) }

ClickOpacities == { R(1, 2), R(3, 2) }

\* A mouse event that calls no mutator: the curve and both editors' copies
\* of it stay as they are.
HandlerOnly(name, idx) ==
    /\ notified' = FALSE
    /\ sent' = NoNote
    /\ lastOp' = Op(name, idx, NoArg, NoOpacity, NoColor)
    /\ UNCHANGED <<points_x, points_y, colors, saved_tfs, syncVars, dataVars,
                   widgetVars, lutVars, plotVars, active_tf_system, canvasVars,
                   managerVars>>

\* What _closest_point can return: None, or the index of a control point.
Hits == { NoIndex } \cup (0..(Len(points_x) - 1))

\* A press event inside the axes.  margin: event.x <= 40.  idx: what
\* _closest_point returns for it.  color: what the color dialog returns when
\* it is opened, NoColor for a dialog that was cancelled.
PressEvent(margin, dblclick, button, shift, idx, xdata, ydata, color) ==
    [margin |-> margin, dblclick |-> dblclick, button |-> button, shift |-> shift,
     idx |-> idx, xdata |-> xdata, ydata |-> ydata, color |-> color]

\* Press in the left margin: the histogram scaling gesture starts.
on_press_margin ==
    /\ histogram_scaling' = TRUE
    /\ HandlerOnly("on_press", NoIndex)
    /\ UNCHANGED <<selected_index, dragging, cached_xlim>>

\* Faulty variant: the opacity of a double click is added as it is.
on_press_dblclick_unclipped(xdata, ydata, color) ==
    LET x_data == display_to_data(log_scale, xdata)
        x_clipped == Clamp(XMin, x_data, XMax)
    IN  add_point(x_clipped, ydata, color)

\* Double click: the event position is converted and clipped, then added;
\* with shift held the color dialog supplies the color.
on_press_dblclick(xdata, ydata, color) ==
    LET x_data == display_to_data(log_scale, xdata)
        x_clipped == Clamp(XMin, x_data, XMax)
        y_clipped == RClamp(RZero, ydata, ROne)
    IN  add_point(x_clipped, y_clipped, color)

\* Faulty variant: a right click removes the second point, whichever was hit.
on_press_right_second(idx) == remove_point(1)

\* Right click: idx is what _closest_point returned.
on_press_right(idx) == remove_point(idx)

\* Shift + left click with a valid color from the dialog.
on_press_shift_left(idx, color) == update_point_color(idx, color)

\* Faulty variant: a left click on a point that selects nothing.
on_press_left_noselect(idx) ==
    /\ HandlerOnly("on_press", idx)
    /\ UNCHANGED editVars

\* Left click on a point, no modifier: the point is selected for dragging.
on_press_left(idx) ==
    /\ selected_index' = idx
    /\ dragging' = TRUE
    /\ HandlerOnly("on_press", idx)
    /\ UNCHANGED <<histogram_scaling, cached_xlim>>

\* A press that falls through every branch.
on_press_ignored(idx) ==
    /\ HandlerOnly("on_press", idx)
    /\ UNCHANGED editVars

\* TransferFunctionPlot.on_press, then BaseTransferFunction.on_press.
on_press(e) ==
    IF e.margin THEN on_press_margin
    ELSE IF e.dblclick
    THEN on_press_dblclick(e.xdata, e.ydata, IF e.shift THEN e.color ELSE NoColor)
    ELSE IF e.idx # NoIndex /\ e.button = 3 THEN on_press_right(e.idx)
    ELSE IF e.idx # NoIndex /\ e.button = 1
    THEN IF e.shift
         THEN IF e.color # NoColor
              THEN on_press_shift_left(e.idx, e.color)
              ELSE on_press_ignored(e.idx)
         ELSE on_press_left(e.idx)
    ELSE on_press_ignored(e.idx)

\* min(range(len(points_x)), key=lambda i: abs(points_x[i] - x)): the first
\* index among those nearest to x.
NearestIndex(xs, x) ==
    CHOOSE i \in 0..(Len(xs) - 1) :
        \A j \in 0..(Len(xs) - 1) :
            \/ Abs(xs[i + 1] - x) < Abs(xs[j + 1] - x)
            \/ Abs(xs[i + 1] - x) = Abs(xs[j + 1] - x) /\ i <= j

\* Faulty variant: the selection is left at the index it had before the sort.
on_motion_keepindex(xdata, ydata) ==
    IF histogram_scaling \/ ~dragging \/ selected_index = NoIndex
    THEN HandlerOnly("on_motion", NoIndex) /\ UNCHANGED editVars
    ELSE LET x_data == display_to_data(log_scale, xdata)
             x_clipped == Clamp(XMin, x_data, XMax)
             y_clipped == RClamp(RZero, ydata, ROne)
         IN  /\ update_point_call(selected_index, x_clipped, y_clipped)
             /\ UNCHANGED editVars

\* TransferFunctionPlot.on_motion, then BaseTransferFunction.on_motion.
\* While the histogram is scaled only the vertical limits change; otherwise,
\* while dragging, the selected point is updated and the selection is
\* resolved again by position.
on_motion(xdata, ydata) ==
    IF histogram_scaling \/ ~dragging \/ selected_index = NoIndex
    THEN HandlerOnly("on_motion", NoIndex) /\ UNCHANGED editVars
    ELSE LET x_data == display_to_data(log_scale, xdata)
             x_clipped == Clamp(XMin, x_data, XMax)
             y_clipped == RClamp(RZero, ydata, ROne)
         IN  /\ update_point_call(selected_index, x_clipped, y_clipped)
             /\ selected_index' = NearestIndex(points_x', x_clipped)
             /\ UNCHANGED <<dragging, histogram_scaling, cached_xlim>>

\* Faulty variant: a release that ends the drag and leaves the histogram
\* scaling on.
on_release_keepscaling ==
    /\ selected_index' = NoIndex
    /\ dragging' = FALSE
    /\ HandlerOnly("on_release", selected_index)
    /\ UNCHANGED <<histogram_scaling, cached_xlim>>

\* TransferFunctionPlot.on_release, after BaseTransferFunction.on_release.
on_release ==
    /\ selected_index' = NoIndex
    /\ dragging' = FALSE
    /\ histogram_scaling' = FALSE
    /\ HandlerOnly("on_release", selected_index)
    /\ UNCHANGED cached_xlim

\* scale = base ** step with base = 0.9, for one notch up or down.
ScrollScale(step) == IF step > 0 THEN R(9, 10) ELSE R(10, 9)

\* xdata + (limit - xdata) * scale
ZoomAbout(xdata, limit, scale) == RAdd(xdata, RMul(RSub(limit, xdata), scale))

\* Cursor positions inside a view: its two edges and its middle.
ScrollCursors(view) == { view[1], RDiv(RAdd(view[1], view[2]), RInt(2)), view[2] }

\* Views that are zoomed further: their limits have short denominators and
\* lie within three data ranges of the data range.
ScrollBounded(view) ==
    /\ view[1].den <= ScrollDenCap /\ view[2].den <= ScrollDenCap
    /\ RLe(RInt(0 - 3 * 255), view[1]) /\ RLe(view[2], RInt(4 * 255))

\* w > 1e-6, for a rational w with a positive denominator.
MoreThanMillionth(w) == w.num > w.den \div 1000000

\* TransferFunctionPlot.on_scroll.  The module does not import Qt, so the
\* look-up of Qt.ShiftModifier raises NameError, shift is False whatever is
\* held, and the zoom is horizontal: the new limits are cut to 0 and 255 and
\* set if they are more than 1e-6 apart.
on_scroll(step, shift, xdata) ==
    LET view == cached_xlim["plot_canvas"]
        scale == ScrollScale(step)
        new_xmin == RMax(RZero, ZoomAbout(xdata, view[1], scale))
        new_xmax == RMin(RInt(255), ZoomAbout(xdata, view[2], scale))
    IN  /\ ScrollBounded(view)
        /\ cached_xlim' =
              [cached_xlim EXCEPT !["plot_canvas"] =
                  IF MoreThanMillionth(RSub(new_xmax, new_xmin))
                  THEN <<new_xmin, new_xmax>>
                  ELSE view]
        /\ UNCHANGED <<curveVars, dataVars, widgetVars, lutVars, plotVars, syncVars,
                       selected_index, dragging, histogram_scaling,
                       active_tf_system, canvasVars, managerVars>>

\* TransferFunction2D._apply_view_limits: a view wider than three times the
\* data range is cut to that width about its middle.
apply_view_limits_2d(view) ==
    LET max_range == RInt(3 * 255)
        center_x == RDiv(RAdd(view[1], view[2]), RInt(2))
        half == RDiv(max_range, RInt(2))
    IN  IF RLt(max_range, RSub(view[2], view[1]))
        THEN <<RSub(center_x, half), RAdd(center_x, half)>>
        ELSE view

\* BaseTransferFunction.on_scroll on the 2D editor, which does not override
\* it: with shift the zoom is vertical, otherwise the horizontal limits are
\* scaled about the cursor and set as computed; the redraw applies the 2D
\* editor's view limits.
base_on_scroll(step, shift, ctrl, xdata) ==
    LET view == cached_xlim["tf2d_canvas"]
        scale == ScrollScale(step)
        zoomed == <<ZoomAbout(xdata, view[1], scale), ZoomAbout(xdata, view[2], scale)>>
    IN  /\ ScrollBounded(view)
        /\ cached_xlim' =
              [cached_xlim EXCEPT !["tf2d_canvas"] =
                  apply_view_limits_2d(IF shift THEN view ELSE zoomed)]
        /\ UNCHANGED <<curveVars, dataVars, widgetVars, lutVars, plotVars, syncVars,
                       selected_index, dragging, histogram_scaling,
                       active_tf_system, canvasVars, managerVars>>

\* A control-point mutation in the 2D editor, which leaves the curve lists
\* c in tf2d_canvas: BaseTransferFunction._notify_app walks up to the
\* application and calls update_opacity_function, with _tf_change_source as
\* it is.  No listener of the 1D plot runs.
NotifyFrom2d(name, index, c) ==
    LET r == update_opacity_function(
                 active_tf_system, tf_change_source,
                 [xs |-> points_x, ys |-> points_y, cs |-> colors], c,
                 c.xs, c.ys, c.cs)
    IN  /\ tf2d' = r.tf2d
        /\ points_x' = r.plot.xs /\ points_y' = r.plot.ys /\ colors' = r.plot.cs
        /\ notified' = FALSE
        /\ sent' = NoNote
        /\ lastOp' = Op(name, index, NoArg, NoOpacity, NoColor)
        /\ UNCHANGED <<saved_tfs, tf_change_source, dataVars, widgetVars, lutVars,
                       plotVars, restVars>>

\* add_point on tf2d_canvas.
tf2d_add_point(x, y, color) ==
    /\ Len(tf2d.xs) < MaxLen
    /\ NotifyFrom2d("tf2d_add_point", NoArg,
                    AddPoint(tf2d.xs, tf2d.ys, tf2d.cs, x, y, color))

\* remove_point on tf2d_canvas, for an index it removes.
tf2d_remove_point(index) ==
    /\ RemovePointGuard(index, Len(tf2d.xs))
    /\ NotifyFrom2d("tf2d_remove_point", index,
                    [xs |-> RemoveAt(tf2d.xs, index + 1),
                     ys |-> RemoveAt(tf2d.ys, index + 1),
                     cs |-> RemoveAt(tf2d.cs, index + 1)])

\* VolumeApp.switch_active_system: the selector's system becomes the active
\* one; the editors' curves are not touched.
switch_active_system(system_type) ==
    /\ active_tf_system' = system_type
    /\ UNCHANGED <<curveVars, dataVars, widgetVars, lutVars, plotVars, syncVars,
                   editVars, canvasVars, managerVars>>

----------------------------------------------------------------------------
(* The persisted collection: tf_manager.py *)

\* A JSON scalar: a number, or a text float() rejects.
JNum(v) == <<"num", v>>

JText == <<"str", "abc">>

IsNumber(j) == j[1] = "num"

AllNumbers(s) == \A k \in 1..Len(s) : IsNumber(s[k])

Floats(s) == [k \in 1..Len(s) |-> s[k][2]]

\* save_tfs_to_disk: one entry of the written object.
ToJson(tf) ==
    [x |-> [k \in 1..Len(tf.xs) |-> JNum(tf.xs[k])],
     y |-> [k \in 1..Len(tf.ys) |-> JNum(tf.ys[k])],
     colors |-> [k \in 1..Len(tf.cs) |-> [c \in 1..3 |-> JNum(tf.cs[k][c])]]]

GoodEntry == ToJson(RampCurve)

NonNumericEntry == [GoodEntry EXCEPT !.x[2] = JText]

MismatchedEntry == [GoodEntry EXCEPT !.y = <<JNum(RZero), JNum(ROne)>>]

\* The body of the try block for one entry: TRUE when no conversion raises.
EntryLoads(tf) ==
    /\ AllNumbers(tf.x)
    /\ AllNumbers(tf.y)
    /\ \A k \in 1..Len(tf.colors) : AllNumbers(tf.colors[k])

EntryCurve(tf) ==
    [xs |-> Floats(tf.x),
     ys |-> Floats(tf.y),
     cs |-> [k \in 1..Len(tf.colors) |-> Floats(tf.colors[k])]]

NoTFs == [n \in {} |-> DefaultCurve]

\* file.valid is FALSE for a missing file and for one that is not JSON.
load_tfs_from_disk(file) ==
    IF ~file.valid THEN NoTFs
    ELSE [n \in {m \in DOMAIN file.data : EntryLoads(file.data[m])} |->
             EntryCurve(file.data[n])]

TFNames == { "Default", "A" }

EntryChoices == { GoodEntry, NonNumericEntry, MismatchedEntry }

TFFiles ==
    { [valid |-> FALSE, data |-> NoTFs] } \cup
    { [valid |-> TRUE, data |-> f] :
        f \in UNION { [names -> EntryChoices] : names \in SUBSET TFNames } }

\* Before VolumeApp.setup_dual_transfer_functions ran.
Created ==
    /\ points_x = <<>> /\ points_y = <<>> /\ colors = <<>>
    /\ saved_tfs = NoTFs
    /\ notified = FALSE
    /\ sent = NoNote
    /\ lastOp = Op("created", NoArg, NoArg, NoOpacity, NoColor)

\* The TFManager is built, which loads the file, and the plot gets the
\* initial curve.
setup_point_tf(file) ==
    /\ lastOp.op = "created"
    /\ saved_tfs' = load_tfs_from_disk(file)
    /\ LET tf == get_initial_tf_data(saved_tfs', data)
           c == sort_points_with_colors(tf.xs, tf.ys, tf.cs)
       IN  /\ points_x' = c.xs /\ points_y' = c.ys /\ colors' = c.cs
           /\ tf2d' = set_tf_state(c.xs, c.ys, c.cs)
    /\ notified' = FALSE
    /\ sent' = NoNote
    /\ UNCHANGED tf_change_source
    /\ lastOp' = Op("init", NoArg, NoArg, NoOpacity, NoColor)
    /\ UNCHANGED <<dataVars, widgetVars, lutVars, plotVars, restVars>>

SaveNames == { "A" }

\* The name dialog was accepted with a non-empty name.
save_current_tf(name) ==
    /\ lastOp.op # "created"
    /\ saved_tfs' = [n \in DOMAIN saved_tfs \cup {name} |->
                        IF n = name
                        THEN [xs |-> points_x, ys |-> points_y, cs |-> colors]
                        ELSE saved_tfs[n]]
    /\ notified' = FALSE
    /\ sent' = NoNote
    /\ UNCHANGED syncVars
    /\ lastOp' = Op("save_current_tf", NoArg, NoArg, NoOpacity, NoColor)
    /\ UNCHANGED <<points_x, points_y, colors, dataVars, widgetVars, lutVars, plotVars, restVars>>

(* Widget construction and set_parameter with arbitrary arguments *)

\* WidgetFactory.create_widget(widget_type, <intensity extent>=..., <gradient
\* extent>=...): the keyword arguments override the class defaults and the
\* constructor floors them.
create_widget_kwargs(widget_type, intensity_size, gradient_size) ==
    LET config == [ClassDefaults(widget_type) EXCEPT
                       !.intensity_size = intensity_size,
                       !.gradient_size = gradient_size]
    IN  [config EXCEPT !.intensity_size = Max2(1, config.intensity_size),
                       !.gradient_size = Max2(1, config.gradient_size),
                       !.falloff = RMax(RZero, config.falloff)]

\* tf_widgets.GaussianWidget: the constructor stores its arguments as given.
\* The fields this class does not have hold the fillers of ClassDefaults.
tf_widgets_GaussianWidget(intensity_std, gradient_std) ==
    [ClassDefaults("gaussian") EXCEPT
        !.widget_type = "tf_widgets.gaussian",
        !.intensity_size = intensity_std,
        !.gradient_size = gradient_std]

\* tf_widgets.GaussianWidget.set_parameter: plain assignments.
tf_widgets_set_parameter(w, name, value) ==
    CASE name = "center_intensity" -> [w EXCEPT !.center_intensity = value]
      [] name = "center_gradient" -> [w EXCEPT !.center_gradient = value]
      [] name = "intensity_std" -> [w EXCEPT !.intensity_size = value]
      [] name = "gradient_std" -> [w EXCEPT !.gradient_size = value]
      [] name = "opacity" -> [w EXCEPT !.opacity = value]
      [] OTHER -> w

FactoryTypes == { "gaussian", "triangular", "rectangular", "ellipsoid", "diamond" }

ConstructorSizes == { 0 - 3, 0, 40, 90 }

SetterSizes == { 0 - 3, 0, 7 }

\* A widget of widget_factory.py is constructed.
construct_widget(widget_type, intensity_size, gradient_size) ==
    /\ widgets' = <<create_widget_kwargs(widget_type, intensity_size, gradient_size)>>
    /\ WidgetsChanged
    /\ UNCHANGED <<curveVars, plotVars, uiVars, dataVars>>

\* A GaussianWidget of tf_widgets.py is constructed.
construct_tf_widgets_gaussian(intensity_std, gradient_std) ==
    /\ widgets' = <<tf_widgets_GaussianWidget(intensity_std, gradient_std)>>
    /\ WidgetsChanged
    /\ UNCHANGED <<curveVars, plotVars, uiVars, dataVars>>

\* set_parameter of the widget's class is called on one of its two extents.
call_set_parameter(index, intensity, value) ==
    /\ index \in 1..Len(widgets)
    /\ LET w == widgets[index]
       IN  widgets' = [widgets EXCEPT ![index] =
               IF w.widget_type = "tf_widgets.gaussian"
               THEN tf_widgets_set_parameter(w,
                        IF intensity THEN "intensity_std" ELSE "gradient_std", value)
               ELSE set_parameter(w,
                        IF intensity THEN IntensityParam(w.widget_type)
                        ELSE GradientParam(w.widget_type), value)]
    /\ WidgetsChanged
    /\ UNCHANGED <<curveVars, plotVars, uiVars, dataVars>>

(* The widget canvas under drags, duplication and dataset loads *)

\* distance < (intensity_range[1] - intensity_range[0]) * 0.05, that is
\* distance < 51/4, for whole-numbered positions.
NearCenter(w, xdata, ydata) ==
    LET dx == xdata - w.center_intensity
        dy == ydata - w.center_gradient
    IN  (dx * dx + dy * dy) * 16 < 51 * 51

\* The first widget whose center the click is near, from 0; NoIndex if none.
FirstNear(ws, xdata, ydata) ==
    LET near == { i \in 1..Len(ws) : NearCenter(ws[i], xdata, ydata) }
    IN  IF near = {} THEN NoIndex
        ELSE (CHOOSE i \in near : \A j \in near : i <= j) - 1

\* UnifiedTFCanvas.on_press inside the axes.  With shift and the left button
\* on a widget the color dialog is opened (color is what it returns, NoColor
\* if cancelled); otherwise a press on a widget makes it the active widget
\* and starts the drag.  A press on no widget goes to the base class, which
\* works on the canvas's own control points and leaves the widgets alone.
canvas_on_press(xdata, ydata, button, shift, color) ==
    LET i == FirstNear(widgets, xdata, ydata)
    IN  IF i = NoIndex
        THEN UNCHANGED vars
        ELSE IF button = 1 /\ shift
        THEN IF color # NoColor
             THEN /\ widgets' = [widgets EXCEPT ![i + 1].color = color]
                  /\ WidgetsChanged
                  /\ UNCHANGED <<pointVars, dataVars, canvasVars, managerVars>>
             ELSE UNCHANGED vars
        ELSE /\ active_widget' = i
             /\ dragging_widget' = TRUE
             /\ UNCHANGED <<pointVars, dataVars, widgetVars, lutVars, managerVars>>

\* Faulty variant: the motion moves the first widget, whichever was pressed.
canvas_on_motion_first(xdata, ydata) ==
    /\ xdata \in 0..255 /\ ydata \in 0..255
    /\ IF dragging_widget /\ active_widget # NoIndex /\ widgets # <<>>
       THEN /\ widgets' = [widgets EXCEPT ![1].center_intensity = xdata,
                                          ![1].center_gradient = ydata]
            /\ WidgetsChanged
       ELSE UNCHANGED <<widgetVars, lutVars>>
    /\ UNCHANGED <<pointVars, dataVars, canvasVars, managerVars>>

\* UnifiedTFCanvas.on_motion inside the axes: while a widget is dragged the
\* event position becomes the center of widgets[active_widget]; an index
\* beyond the list raises IndexError and the handler ends there.  The canvas
\* is redrawn with the limits 0..255 on both axes after every change.
canvas_on_motion(xdata, ydata) ==
    /\ xdata \in 0..255 /\ ydata \in 0..255
    /\ IF dragging_widget /\ active_widget # NoIndex /\ active_widget < Len(widgets)
       THEN /\ widgets' = [widgets EXCEPT ![active_widget + 1].center_intensity = xdata,
                                          ![active_widget + 1].center_gradient = ydata]
            /\ WidgetsChanged
       ELSE UNCHANGED <<widgetVars, lutVars>>
    /\ UNCHANGED <<pointVars, dataVars, canvasVars, managerVars>>

\* UnifiedTFCanvas.on_release: the drag ends; active_widget stays.
canvas_on_release ==
    /\ dragging_widget' = FALSE
    /\ UNCHANGED <<active_widget, pointVars, dataVars, widgetVars, lutVars, managerVars>>

on_slider_changed(index, name, value) ==
    /\ index \in 1..Len(widgets)
    /\ widgets' = [widgets EXCEPT ![index] = set_parameter(widgets[index], name, value)]
    /\ WidgetsChanged
    /\ UNCHANGED <<curveVars, plotVars, uiVars, dataVars>>

\* The copy of the selected widget, moved by 10 and cut at 255, is appended.
duplicate_widget(index) ==
    /\ index \in 1..Len(widgets)
    /\ Len(widgets) < MaxWidgets
    /\ LET new_widget ==
               [widgets[index] EXCEPT
                   !.center_intensity = Min2(255, widgets[index].center_intensity + 10),
                   !.center_gradient = Min2(255, widgets[index].center_gradient + 10)]
       IN  widgets' = Append(widgets, new_widget)
    /\ WidgetsChanged
    /\ widget_list' = update_widget_list(widgets')
    /\ selected_item' = NoIndex
    /\ UNCHANGED current_widget
    /\ UNCHANGED <<pointVars, dataVars, canvasVars>>

\* on_widget_selected after the user selects the row (from 0) of the list:
\* current_widget becomes the widget at the index the item stores; an index
\* beyond the canvas list raises IndexError and current_widget stays.
on_widget_selected(row) ==
    /\ row \in 0..(Len(widget_list) - 1)
    /\ selected_item' = row
    /\ current_widget' =
          IF widget_list[row + 1] < Len(widgets) THEN widget_list[row + 1]
          ELSE current_widget
    /\ UNCHANGED <<widget_list, pointVars, dataVars, widgetVars, lutVars, canvasVars>>

\* The delete button with current_widget as it is: a widget of the canvas is
\* deleted as delete_widget does; None or a widget that is no longer on the
\* canvas is not in the list and nothing happens.
delete_current_widget ==
    IF current_widget \in 0..(Len(widgets) - 1)
    THEN delete_widget(current_widget + 1)
    ELSE UNCHANGED vars

\* The Duplicate button: with a selected row and a current widget of the
\* canvas, its copy is appended and the list rebuilt, which drops the
\* selection.
duplicate_current_widget ==
    /\ selected_item # NoIndex
    /\ current_widget \in 0..(Len(widgets) - 1)
    /\ duplicate_widget(current_widget + 1)

\* A float spinbox of the parameter panel: set_parameter on current_widget;
\* None is skipped, and a widget that is no longer on the canvas is changed
\* without any effect on the list.
on_float_spinbox_changed_current(name, value) ==
    IF current_widget \in 0..(Len(widgets) - 1)
    THEN on_float_spinbox_changed(current_widget + 1, name, value)
    ELSE UNCHANGED vars

\* WidgetFactory.create_widget(GAUSSIAN, center_intensity=..., ...): the
\* constructor floors the two stds and stores the centers as given.
create_gaussian_at(center_intensity, center_gradient, intensity_std, gradient_std) ==
    [create_widget_kwargs("gaussian", intensity_std, gradient_std) EXCEPT
        !.center_intensity = center_intensity,
        !.center_gradient = center_gradient]

\* Faulty variant: the new widget is added without clearing the list.
reset_widget_tf_for_new_data_keep(ws, intensity_range, gradient_range) ==
    Append(ws, create_gaussian_at(
                   (intensity_range[1] + intensity_range[2]) \div 2,
                   (gradient_range[1] + gradient_range[2]) \div 2,
                   (intensity_range[2] - intensity_range[1]) \div 10,
                   (gradient_range[2] - gradient_range[1]) \div 10))

\* The list is cleared and one Gaussian is added, centered in the raw value
\* ranges of the new data, with a tenth of each range as std.
reset_widget_tf_for_new_data(ws, intensity_range, gradient_range) ==
    << create_gaussian_at(
           (intensity_range[1] + intensity_range[2]) \div 2,
           (gradient_range[1] + gradient_range[2]) \div 2,
           (intensity_range[2] - intensity_range[1]) \div 10,
           (gradient_range[2] - gradient_range[1]) \div 10) >>

\* Volumes: the normalised scalars and gradient magnitudes, and the raw
\* ranges normalize_data returns with them.
Volumes ==
    { [i |-> <<0, 128, 255>>, g |-> <<0, 128, 255>>,
       intensity_range |-> <<0, 250>>, gradient_range |-> <<0, 250>>],
      [i |-> <<0, 120, 195, 255>>, g |-> <<0, 80, 80, 255>>,
       intensity_range |-> <<0, 4000>>, gradient_range |-> <<0, 1000>>] }

\* A dataset load that completes: the canvases get the normalised data and
\* the widget list is reset.
load_volume(v) ==
    /\ data' = v.i
    /\ gradient_data' = v.g
    /\ widgets' = reset_widget_tf_for_new_data(widgets, v.intensity_range, v.gradient_range)
    /\ WidgetsChanged
    /\ widget_list' = update_widget_list(widgets')
    /\ selected_item' = NoIndex
    /\ current_widget' = AfterClear(current_widget)
    /\ UNCHANGED <<pointVars, canvasVars>>

DragTargets == { <<0, 255>> }

\* Clicks on the center the default Gaussian starts at, and beside it.
PressTargets == { <<128, 128>>, <<130, 120>> }

SliderInputs == { <<"center_intensity", 300>> }

CanvasPresetInputs == { <<"gaussian", "soft_tissue">> }

CanvasFloatInputs == { <<"opacity", R(3, 2)>> }

\* setup_dual_transfer_functions adds one default Gaussian widget.
WidgetInit ==
    /\ widgets = <<create_widget("gaussian", "none")>>
    /\ query = NoQuery
    /\ combined = RZero

LutInit == lut = NoTable /\ prev_lut = NoTable /\ fresh_calls = 0 /\ sampled = <<>>

\* The log checkbox starts unchecked; nothing was converted yet.
PlotInit == log_scale = FALSE /\ probe = <<>>

\* The two canvases whose view window the model follows.
Canvases == { "plot_canvas", "tf2d_canvas" }

\* After setup_dual_transfer_functions: nothing is selected or dragged, the
\* views show 0..255, both editors hold the initial curve, the point system
\* is active and the widget list shows the widgets of the canvas.
UiInit ==
    /\ selected_index = NoIndex
    /\ dragging = FALSE
    /\ histogram_scaling = FALSE
    /\ cached_xlim = [c \in Canvases |-> <<RInt(0), RInt(255)>>]
    /\ tf2d = [xs |-> points_x, ys |-> points_y, cs |-> colors]
    /\ tf_change_source = NoSource
    /\ active_tf_system = "point"
    /\ active_widget = NoIndex
    /\ dragging_widget = FALSE
    /\ widget_list = update_widget_list(widgets)
    /\ selected_item = NoIndex
    /\ current_widget = NoIndex

\* The control-point curve and its mutators.  With a saved curve the data
\* does not reach the curve, and one dataset stands for all.
Init ==
    /\ saved_tfs \in SavedChoices
    /\ \E d \in CurveDatasets :
          /\ DOMAIN saved_tfs # {} => d = FallbackData
          /\ CurveInit(d)
    /\ WidgetInit
    /\ LutInit
    /\ PlotInit
    /\ UiInit

Next ==
    \/ \E a \in AddInputs : add_point(a[1], a[2], a[3])
    \/ \E i \in IndexInputs : remove_point(i)
    \/ \E i \in IndexInputs : \E m \in MoveInputs(i) : update_point(i, m[1], m[2])
    \/ \E n \in {"Default"} : load_selected_tf(n)

Spec == Init /\ [][Next]_vars

SavedDefault == [n \in {"Default"} |-> RampCurve]

\* The widget list, its parameter panel and the compositing of its widgets.
InitWidgets ==
    /\ saved_tfs = SavedDefault
    /\ CurveInit(FallbackData)
    /\ WidgetInit
    /\ LutInit
    /\ PlotInit
    /\ UiInit

NextWidgets ==
    \/ \E p \in PresetInputs : add_preset_widget(p[1], p[2])
    \/ \E i \in 1..Len(widgets) : \E v \in FloatInputs :
          on_float_spinbox_changed(i, v[1], v[2])
    \/ \E i \in 1..Len(widgets) : \E v \in ComboInputs :
          on_combo_changed(i, v[1], v[2])
    \/ \E i \in 1..Len(widgets) : delete_widget(i)
    \/ clear_widgets
    \/ \E q \in Queries : combined_opacity_query(q[1], q[2])

SpecWidgets == InitWidgets /\ [][NextWidgets]_vars

\* The LUT sampler over the widget list and the loaded data.
InitSampler ==
    /\ saved_tfs = SavedDefault
    /\ \E d \in SampleDatasets : CurveInit(d)
    /\ WidgetInit
    /\ LutInit
    /\ PlotInit
    /\ UiInit

NextSampler ==
    \/ \E p \in SamplerPresetInputs : add_preset_widget(p[1], p[2])
    \/ \E i \in 1..Len(widgets) : delete_widget(i)
    \/ clear_widgets
    \/ sample_for_vtk

SpecSampler == InitSampler /\ [][NextSampler]_vars

\* The LUT sampler over widgets whose colors and blend modes the user edits.
InitLutColor ==
    /\ saved_tfs = SavedDefault
    /\ CurveInit(LutColorDataset)
    /\ WidgetInit
    /\ LutInit
    /\ PlotInit
    /\ UiInit

NextLutColor ==
    \/ \E p \in LutColorPresetInputs : add_preset_widget(p[1], p[2])
    \/ \E i \in 1..Len(widgets), c \in ColorInputs : change_widget_color(i, c)
    \/ \E i \in 1..Len(widgets), v \in LutBlendInputs : on_combo_changed(i, v[1], v[2])
    \/ sample_for_vtk

SpecLutColor == InitLutColor /\ [][NextLutColor]_vars

\* The 1D plot under mouse events and the log checkbox.
InitPlot ==
    /\ saved_tfs = SavedDefault
    /\ CurveInit(FallbackData)
    /\ WidgetInit
    /\ LutInit
    /\ PlotInit
    /\ UiInit

NextPlot ==
    \/ toggle_log_histogram
    \/ \E t \in ClickTargets, y \in ClickOpacities, c \in {NoColor, Red} :
          on_press(PressEvent(FALSE, TRUE, 1, c # NoColor, NoIndex,
                              data_to_display(log_scale, t), y, c))
    \/ \E i \in 0..(Len(points_x) - 1), b \in {1, 3}, sh \in BOOLEAN :
          on_press(PressEvent(FALSE, FALSE, b, sh, i, XMin, RZero, Red))
    \/ \E t \in ClickTargets, y \in ClickOpacities :
          on_motion(data_to_display(log_scale, t), y)
    \/ on_release

SpecPlot == InitPlot /\ [][NextPlot]_vars

\* The persisted collection from before start-up on.
InitLoad ==
    /\ Created
    /\ data = FallbackData.i
    /\ gradient_data = FallbackData.g
    /\ WidgetInit
    /\ LutInit
    /\ PlotInit
    /\ UiInit

NextLoad ==
    \/ \E file \in TFFiles : setup_point_tf(file)
    \/ \E name \in TFNames : load_selected_tf(name)
    \/ \E name \in SaveNames : save_current_tf(name)
    \/ \E x \in ClickTargets : on_press_dblclick(x, R(1, 2), NoColor)
    \/ \E i \in 0..(Len(points_x) - 1) : on_press_right(i)

SpecLoad == InitLoad /\ [][NextLoad]_vars

\* One widget object at a time, constructed and reshaped with any arguments.
InitShape == InitWidgets

NextShape ==
    \/ \E t \in FactoryTypes, i, g \in ConstructorSizes : construct_widget(t, i, g)
    \/ \E i, g \in ConstructorSizes : construct_tf_widgets_gaussian(i, g)
    \/ \E k \in 1..Len(widgets), b \in BOOLEAN, v \in SetterSizes :
          call_set_parameter(k, b, v)

SpecShape == InitShape /\ [][NextShape]_vars

\* The widget list under the parameter panel, drags, duplication and loads.
InitCanvas == InitWidgets

NextCanvas ==
    \/ \E p \in CanvasPresetInputs : add_preset_widget(p[1], p[2])
    \/ \E i \in 1..Len(widgets), v \in SliderInputs : on_slider_changed(i, v[1], v[2])
    \/ \E i \in 1..Len(widgets), v \in CanvasFloatInputs :
          on_float_spinbox_changed(i, v[1], v[2])
    \/ \E t \in PressTargets : canvas_on_press(t[1], t[2], 1, FALSE, NoColor)
    \/ \E t \in DragTargets : canvas_on_motion(t[1], t[2])
    \/ canvas_on_release
    \/ \E i \in 1..Len(widgets) : duplicate_widget(i)
    \/ \E v \in Volumes : load_volume(v)

SpecCanvas == InitCanvas /\ [][NextCanvas]_vars

\* The coordinate transform of the 1D plot under the log checkbox.
InitTransform == InitPlot

NextTransform ==
    \/ toggle_log_histogram
    \/ \E x \in ProbeInputs, y \in ProbeOpacities : draw_point(x, y)
    \/ read_point

SpecTransform == InitTransform /\ [][NextTransform]_vars

\* The press events of the editor: one in the left margin, double clicks on
\* the targets with and without shift, single presses of either button on
\* every point and beside all of them, and shift presses beside the points
\* and on the first point, with the color dialog accepted and cancelled.
EditorPressEvents ==
    { PressEvent(TRUE, FALSE, 1, FALSE, NoIndex, XMin, RZero, NoColor),
      PressEvent(FALSE, TRUE, 1, FALSE, NoIndex, Pos(100), R(3, 2), Red),
      PressEvent(FALSE, TRUE, 1, TRUE, NoIndex, Pos(300), R(1, 2), Red),
      PressEvent(FALSE, TRUE, 1, TRUE, NoIndex, Pos(300), R(1, 2), NoColor) }
    \cup { PressEvent(FALSE, FALSE, b, FALSE, i, XMin, RZero, NoColor) :
              b \in {1, 3}, i \in Hits }
    \cup { PressEvent(FALSE, FALSE, 1, TRUE, i, XMin, RZero, c) :
              i \in {NoIndex, 0}, c \in {NoColor, Red} }

\* Where the pointer is dragged to: onto a position a point may have, and
\* beyond the right end of the range, above the top of the axes.
EditorMotions == { <<Pos(100), R(3, 2)>>, <<Pos(300), R(3, 2)>> }

\* The 1D editor under press, motion and release.
InitEditor == InitPlot

NextEditor ==
    \/ \E e \in EditorPressEvents : on_press(e)
    \/ \E m \in EditorMotions : on_motion(m[1], m[2])
    \/ on_release

SpecEditor == InitEditor /\ [][NextEditor]_vars

\* The gestures a release ends: a press in the left margin and a press of
\* the left button on a point or beside all of them.
GesturePressEvents ==
    { PressEvent(TRUE, FALSE, 1, FALSE, NoIndex, XMin, RZero, NoColor) }
    \cup { PressEvent(FALSE, FALSE, 1, FALSE, i, XMin, RZero, NoColor) : i \in Hits }

\* The 1D editor and the widget canvas through their gestures: press, motion
\* and release in either.
InitGesture == InitPlot

NextGesture ==
    \/ \E e \in GesturePressEvents : on_press(e)
    \/ \E m \in EditorMotions : on_motion(m[1], m[2])
    \/ on_release
    \/ \E t \in PressTargets : canvas_on_press(t[1], t[2], 1, FALSE, NoColor)
    \/ \E t \in DragTargets : canvas_on_motion(t[1], t[2])
    \/ canvas_on_release

SpecGesture == InitGesture /\ [][NextGesture]_vars

\* The view windows of the 1D plot and of the 2D editor under scroll events:
\* one notch up or down, with and without a modifier, about the edges and
\* the middle of the view.
InitScroll == InitPlot

NextScroll ==
    \/ \E step \in {1, 0 - 1}, shift \in BOOLEAN :
          \E xdata \in ScrollCursors(cached_xlim["plot_canvas"]) :
             on_scroll(step, shift, xdata)
    \/ \E step \in {1, 0 - 1}, shift, ctrl \in BOOLEAN :
          \E xdata \in ScrollCursors(cached_xlim["tf2d_canvas"]) :
             base_on_scroll(step, shift, ctrl, xdata)

SpecScroll == InitScroll /\ [][NextScroll]_vars

\* Points added in either editor: inside the curve, white and red.
SyncAddInputs == { <<Pos(100), R(1, 2), NoColor>>, <<Pos(200), R(1, 2), Red>> }

TFSystems == { "point", "widget", "nd" }

\* The two curve editors under mutations in either and the system selector.
InitSync == InitPlot

NextSync ==
    \/ \E a \in SyncAddInputs : add_point(a[1], a[2], a[3])
    \/ \E i \in 0..(Len(points_x) - 1) : remove_point(i)
    \/ \E a \in SyncAddInputs : tf2d_add_point(a[1], a[2], a[3])
    \/ \E i \in 0..(Len(tf2d.xs) - 1) : tf2d_remove_point(i)
    \/ \E system_type \in TFSystems : switch_active_system(system_type)

SpecSync == InitSync /\ [][NextSync]_vars

ManagerPresetInputs == { <<"gaussian", "soft_tissue">>, <<"triangular", "none">> }

\* The widget manager: its list, its selection and its parameter panel under
\* add, select, duplicate, delete, Clear All and dataset loads.
InitManager == InitWidgets

NextManager ==
    \/ \E p \in ManagerPresetInputs : add_preset_widget(p[1], p[2])
    \/ \E row \in 0..(Len(widget_list) - 1) : on_widget_selected(row)
    \/ duplicate_current_widget
    \/ delete_current_widget
    \/ \E v \in CanvasFloatInputs : on_float_spinbox_changed_current(v[1], v[2])
    \/ clear_widgets
    \/ \E v \in Volumes : load_volume(v)

SpecManager == InitManager /\ [][NextManager]_vars

\* The widget canvas under drags of its widgets while widgets are added to
\* and removed from its list.
InitDrag == InitWidgets

NextDrag ==
    \/ \E t \in PressTargets : canvas_on_press(t[1], t[2], 1, FALSE, NoColor)
    \/ \E t \in DragTargets \cup PressTargets : canvas_on_motion(t[1], t[2])
    \/ canvas_on_release
    \/ \E p \in ManagerPresetInputs : add_preset_widget(p[1], p[2])
    \/ \E i \in 1..Len(widgets) : delete_widget(i)
    \/ clear_widgets

SpecDrag == InitDrag /\ [][NextDrag]_vars

----------------------------------------------------------------------------
(* Properties of the control-point curve *)

NumPoints == Len(points_x)

PointBag(xs, ys, cs) ==
    LET ts == {Triple(xs, ys, cs, i) : i \in 1..Len(xs)}
    IN  [t \in ts |-> Cardinality({i \in 1..Len(xs) : Triple(xs, ys, cs, i) = t})]

One(t) == SetToBag({t})

Sorted == \A i \in 1..(NumPoints - 1) : points_x[i] <= points_x[i + 1]

PointsKept ==
    LET before == PointBag(points_x, points_y, colors)
        after == PointBag(points_x', points_y', colors')
        op == lastOp'
    IN  /\ op.op = "add_point" =>
              after = before (+) One([x |-> op.x, y |-> op.y, c |-> op.c])
        /\ op.op = "remove_point" =>
              \/ after = before
              \/ /\ ValidIndex(op.index)
                 /\ after (+) One(Triple(points_x, points_y, colors, op.index + 1)) = before
        /\ (op.op = "update_point" /\ ValidIndex(op.index)) =>
              LET old == Triple(points_x, points_y, colors, op.index + 1)
              IN  \E i \in 1..Len(points_x') :
                     LET new == Triple(points_x', points_y', colors', i)
                     IN  /\ new.y = op.y
                         /\ new.c = old.c
                         /\ after (+) One(old) = before (+) One(new)
        /\ (op.op = "update_point" /\ ~ValidIndex(op.index)) => after = before

\* C1: after any sequence of add_point / remove_point / update_point the
\* positions are non-decreasing, and every re-sort keeps each point's own
\* opacity and color (the points other than the one inserted, removed or
\* moved are the same (position, opacity, color) triples as before).
C1_SortedAndPointsKept == [](Len(points_x) = Len(points_y) /\ Len(points_x) = Len(colors) /\ Sorted) /\ [][PointsKept]_vars

\* A re-sort that really moved a colored point in front of another one.
C1_Witness ==
    /\ lastOp.op = "add_point"
    /\ lastOp.c = Red
    /\ \E i \in 1..(NumPoints - 1) :
          /\ Triple(points_x, points_y, colors, i) = [x |-> lastOp.x, y |-> lastOp.y, c |-> lastOp.c]
          /\ points_x[i] < points_x[i + 1]
          /\ colors[i + 1] = White

\* C2: the first position is exactly 0 and the last exactly 255 in every
\* state reachable from curve creation or preset load.
C2_EndpointsPinned ==
    NumPoints >= 1 => (points_x[1] = XMin /\ points_x[NumPoints] = XMax)

EndpointOrOutside(index, n) == index = 0 \/ index = n - 1 \/ index < 0 \/ index > n - 1

\* C3: remove_point(index) with index 0, len-1 or outside [0, len-1] changes
\* neither positions, opacities nor colors and sends no notification.
C3_RemoveEndpointNoOp ==
    [][(lastOp'.op = "remove_point" /\ EndpointOrOutside(lastOp'.index, NumPoints))
          => (UNCHANGED <<points_x, points_y, colors>> /\ notified' = FALSE)]_vars

\* remove_point was called on an endpoint or outside of a curve that has an
\* interior point, and the curve is intact and unannounced.
C3_Witness ==
    /\ lastOp.op = "remove_point"
    /\ EndpointOrOutside(lastOp.index, NumPoints)
    /\ NumPoints >= 3
    /\ notified = FALSE

\* C4: update_point on the first point stores position 0 and the new opacity,
\* on the last point position 255, and the moved point is still first / last
\* after the re-sort.
C4_EndpointMoveStaysEndpoint ==
    [][/\ (lastOp'.op = "update_point" /\ NumPoints >= 1 /\ lastOp'.index = 0) =>
              /\ points_x'[1] = XMin
              /\ points_y'[1] = lastOp'.y
              /\ colors'[1] = colors[1]
       /\ (lastOp'.op = "update_point" /\ NumPoints >= 2 /\ lastOp'.index = NumPoints - 1) =>
              /\ points_x'[NumPoints] = XMax
              /\ points_y'[NumPoints] = lastOp'.y
              /\ colors'[NumPoints] = colors[NumPoints]]_vars

\* C5: after add_point or update_point with any numeric arguments every
\* stored position is within [0,255] and every stored opacity within [0,1].
C5_StoredValuesClamped ==
    \A i \in 1..NumPoints :
        /\ XMin <= points_x[i] /\ points_x[i] <= XMax
        /\ InUnit(points_y[i])

----------------------------------------------------------------------------
(* Properties of the compositing *)

Individual(ws, q) == [k \in 1..Len(ws) |-> calculate_opacity(ws[k], q[1], q[2])]

Combined(ws, q) == calculate_combined_opacity(ws, q[1], q[2])

AllBlend(ws, mode) == \A k \in 1..Len(ws) : ws[k].blend_mode = mode

Orderings(n) == {f \in [1..n -> 1..n] : \A a, b \in 1..n : a # b => f[a] # f[b]}

Reorder(ws, f) == [k \in 1..Len(ws) |-> ws[f[k]]]

Swapped(ws) == <<ws[2], ws[1]>>

OrderInvariant(ws) ==
    \A f \in Orderings(Len(ws)) : \A q \in Queries :
        Combined(Reorder(ws, f), q) = Combined(ws, q)

Asked == query # NoQuery

C7_MultiplyOrderDependent ==
    \A q \in Queries :
        (/\ Len(widgets) = 2
         /\ AllBlend(widgets, "multiply")
         /\ Individual(widgets, q)[1] # Individual(widgets, q)[2]
         /\ RLt(Individual(widgets, q)[1], ROne)
         /\ RLt(Individual(widgets, q)[2], ROne))
        => Combined(Swapped(widgets), q) # Combined(widgets, q)

\* C7, amended: for a widget list whose widgets all blend with multiply,
\* every permutation of the list has the same combined opacity at every
\* query point (acc*(1-w)+w from 0 is 1 minus the product of the 1-w).
C7_MultiplyOrderInvariant ==
    AllBlend(widgets, "multiply") => OrderInvariant(widgets)

\* Two multiply widgets of different opacity, both strictly between 0 and 1
\* at the queried point, give a+b-ab in either order.
C7_Witness ==
    /\ Asked
    /\ Len(widgets) = 2
    /\ AllBlend(widgets, "multiply")
    /\ LET w == Individual(widgets, query)
       IN  /\ w[1] # w[2]
           /\ RLt(RZero, w[1]) /\ RLt(w[1], ROne)
           /\ RLt(RZero, w[2]) /\ RLt(w[2], ROne)
           /\ combined = RSub(RAdd(w[1], w[2]), RMul(w[1], w[2]))
           /\ combined = Combined(Swapped(widgets), query)

Front(ws) == SubSeq(ws, 1, Len(ws) - 1)

\* C8: with multiply the accumulator starts at 0 and each widget in
\* insertion order replaces it by acc*(1-w)+w, w being the widget's opacity
\* at the query point; two widgets that each contribute 1/2 give 3/4.
C8_MultiplyAccumulates ==
    \A q \in Queries :
        (AllBlend(widgets, "multiply") /\ widgets # <<>>) =>
            LET acc == Combined(Front(widgets), q)
                w == Individual(widgets, q)
            IN  /\ Combined(widgets, q) =
                      RAdd(RMul(acc, RSub(ROne, w[Len(widgets)])), w[Len(widgets)])
                /\ (Len(widgets) = 2 /\ w[1] = R(1, 2) /\ w[2] = R(1, 2)) =>
                      Combined(widgets, q) = R(3, 4)

\* Two fully overlapping Rectangular multiply widgets of opacity 1/2,
\* queried at a point inside both: 3/4.
C8_Witness ==
    /\ Asked
    /\ Len(widgets) = 2
    /\ AllBlend(widgets, "multiply")
    /\ \A k \in 1..2 : widgets[k].widget_type = "rectangular"
    /\ Individual(widgets, query) = <<R(1, 2), R(1, 2)>>
    /\ combined = R(3, 4)

RECURSIVE RSum(_)
RSum(s) == IF s = <<>> THEN RZero ELSE RAdd(Head(s), RSum(Tail(s)))

\* C9: for every widget list and every query point the combined opacity is
\* within [0,1], and it is 0 for the empty list.
C9_CombinedInUnit ==
    /\ \A q \in Queries :
          /\ InUnit(Combined(widgets, q))
          /\ widgets = <<>> => Combined(widgets, q) = RZero
    /\ Asked => (combined = Combined(widgets, query) /\ InUnit(combined))

\* Overlapping add widgets whose opacities at the queried point sum to more
\* than 1: the result is 1.
C9_Witness ==
    /\ Asked
    /\ Len(widgets) >= 2
    /\ AllBlend(widgets, "add")
    /\ RLt(ROne, RSum(Individual(widgets, query)))
    /\ combined = ROne

----------------------------------------------------------------------------
(* Properties of the LUT sampler *)

\* C10: two consecutive sample_for_vtk calls with unchanged widget list and
\* unchanged data return identical tables, also when the data holds more
\* points than the subsample cap.
C10_SamplerIdempotent == fresh_calls >= 2 => lut = prev_lut

IsColor(c) == Len(c) = 3 /\ \A k \in 1..3 : c[k] \in 0..10

\* C11: every table sample_for_vtk returns has exactly 256 entries, with the
\* intensities 0, 1, ..., 255 in ascending order, each with an opacity and
\* an RGB color.
C11_LutShape ==
    lut # NoTable =>
        /\ Len(lut) = 256
        /\ \A k \in 1..Len(lut) :
              /\ Len(lut[k]) = 3
              /\ lut[k][1] = k - 1
              /\ InUnit(lut[k][2])
              /\ IsColor(lut[k][3])

\* A table was returned for a widget list that leaves most slots untouched
\* and raises at least one.
C11_Witness ==
    /\ lut # NoTable
    /\ widgets # <<>>
    /\ \E k \in 1..Len(lut) : RLt(RZero, lut[k][2])
    /\ \E k \in 1..Len(lut) : lut[k][2] = RZero /\ lut[k][3] = White

\* The opacities the widgets give to the sampled data points of bucket b.
BucketOpacities(b) ==
    { calculate_opacity(widgets[p[1]], data[sampled[p[2]]], gradient_data[sampled[p[2]]]) :
        p \in { q \in (1..Len(widgets)) \X (1..Len(sampled)) : data[sampled[q[2]]] = b } }

RMaxOf(S) == IF S = {} THEN RZero ELSE CHOOSE m \in S : \A r \in S : RLe(r, m)

\* C12: in the table sample_for_vtk returns, the opacity of slot b is the
\* greatest opacity any widget gives to any sampled data point of bucket b,
\* and 0 when no sampled point falls in the bucket; at most
\* min(SampleCap, number of data points) points are examined.
C12_SlotIsBucketMax ==
    lut # NoTable =>
        /\ Len(sampled) <= Min2(SampleCap, Len(data))
        /\ \A b \in 0..255 : lut[b + 1][2] = RMaxOf(BucketOpacities(b))

\* What the sampler computes: opacities of at most 0.01 are dropped before the
\* maximum is taken.
C12_SlotIsBucketMaxAboveThreshold ==
    lut # NoTable =>
        /\ Len(sampled) <= Min2(SampleCap, Len(data))
        /\ \A b \in 0..255 :
              lut[b + 1][2] = RMaxOf({ r \in BucketOpacities(b) : RLt(R(1, 100), r) })

\* The widgets that give some sampled data point of bucket b the opacity m.
Attaining(b, m) ==
    { j \in 1..Len(widgets) :
        \E n \in 1..Len(sampled) :
            /\ data[sampled[n]] = b
            /\ calculate_opacity(widgets[j], data[sampled[n]], gradient_data[sampled[n]]) = m }

Earliest(S) == CHOOSE j \in S : \A k \in S : j <= k

C14_RoundTrip ==
    (Len(probe) = 3 /\ XMin <= probe[1][1] /\ probe[1][1] <= XMax)
        => probe[3] = probe[1]

\* An interior position was drawn away from itself in log mode and read back.
C14_Witness ==
    /\ log_scale
    /\ Len(probe) = 3
    /\ probe[1][1] = Pos(15)
    /\ probe[2][1] # probe[1][1]

\* C15: a step that changes the display mode changes no control point's
\* position, opacity or color and calls no listener.
C15_ToggleKeepsCurve ==
    [][log_scale' # log_scale =>
          /\ UNCHANGED <<points_x, points_y, colors>>
          /\ notified' = FALSE
          /\ sent' = NoNote]_vars

\* The mode was toggled to log on a curve holding an interior, colored point.
C15_Witness ==
    /\ log_scale
    /\ lastOp.op = "toggle_log_histogram"
    /\ Len(points_x) >= 3
    /\ \E k \in 1..Len(points_x) : points_x[k] = Pos(15) /\ colors[k] = Red

MutatorOps == { "add_point", "remove_point", "update_point", "update_point_color" }

\* C16: a call of add_point, remove_point, update_point or update_point_color
\* that changes the curve calls the listener, and what it hands over is the
\* whole curve as it is after the call, sorted by position.
C16_MutationNotifiesCurrentCurve ==
    [][(lastOp'.op \in MutatorOps
            /\ <<points_x, points_y, colors>>' # <<points_x, points_y, colors>>) =>
          /\ notified'
          /\ sent' = <<points_x', points_y', colors'>>
          /\ \A k \in 1..(Len(points_x') - 1) : points_x'[k] <= points_x'[k + 1]]_vars

\* A point appended at the end was sorted into the middle and the listener
\* got the sorted curve.
C16_Witness ==
    /\ lastOp.op = "add_point"
    /\ notified
    /\ sent # NoNote
    /\ sent[1] = <<XMin, Pos(15), XMax>>
    /\ sent = <<points_x, points_y, colors>>

\* C17: once the persisted collection is loaded, every stored curve has
\* positions, opacities and colors of equal length.
C17_StoredCurvesEqualLength ==
    \A n \in DOMAIN saved_tfs :
        /\ Len(saved_tfs[n].xs) = Len(saved_tfs[n].ys)
        /\ Len(saved_tfs[n].xs) = Len(saved_tfs[n].cs)

\* What the loader does guarantee: every stored value is a number.
C17_StoredValuesNumeric ==
    \A n \in DOMAIN saved_tfs :
        /\ \A k \in 1..Len(saved_tfs[n].xs) : saved_tfs[n].xs[k] \in Int
        /\ \A k \in 1..Len(saved_tfs[n].ys) : saved_tfs[n].ys[k] \in [num : Int, den : Int]

\* C18: every widget object has both its extents (std, width / height,
\* radii) at 1 or more, after its constructor and after every set_parameter.
C18_ShapeParamsAtLeastOne ==
    \A k \in 1..Len(widgets) :
        widgets[k].intensity_size >= 1 /\ widgets[k].gradient_size >= 1

\* What holds: the five classes of widget_factory.py keep their extents at 1
\* or more.
C18_FactoryShapeParamsAtLeastOne ==
    \A k \in 1..Len(widgets) :
        widgets[k].widget_type \in FactoryTypes =>
            widgets[k].intensity_size >= 1 /\ widgets[k].gradient_size >= 1

\* C19: every widget of the list has its center in [0, 255] x [0, 255] and
\* its opacity in [0, 1].
C19_WidgetsInDomain ==
    \A k \in 1..Len(widgets) :
        /\ 0 <= widgets[k].center_intensity /\ widgets[k].center_intensity <= 255
        /\ 0 <= widgets[k].center_gradient /\ widgets[k].center_gradient <= 255
        /\ InUnit(widgets[k].opacity)

----------------------------------------------------------------------------
(* Properties of the mouse handlers *)

\* The editor is in Idle: nothing dragged, nothing selected, no scaling.
EditorIdle == ~dragging /\ selected_index = NoIndex /\ ~histogram_scaling

\* C21: a release event returns the editor to Idle from any state: after a
\* release in the curve editor dragging is false, selected_index is None and
\* histogram scaling is off, and after a release in the widget canvas
\* dragging_widget is false, whatever was pressed or dragged before.
C21_ReleaseReturnsToIdle ==
    [][/\ on_release => EditorIdle'
       /\ canvas_on_release => ~dragging_widget']_vars

\* A drag of a control point and a drag of a widget were both ended by their
\* release events.
C21_Witness ==
    /\ lastOp.op = "on_release" /\ lastOp.index # NoIndex
    /\ EditorIdle
    /\ active_widget # NoIndex /\ ~dragging_widget

\* The curve is left as it is by the step.
CurveUnchanged == UNCHANGED <<points_x, points_y, colors>>

\* C22: a primary-button press on a control point with no modifier enters
\* Dragging with selected_index the hit point; with shift held it recolors
\* the hit point when a color is chosen and leaves dragging and
\* selected_index as they are; a primary-button press that hits no point
\* changes neither the editor's state nor the curve.
C22_PrimaryPress ==
    [][\A e \in EditorPressEvents :
          (on_press(e) /\ ~e.margin /\ ~e.dblclick /\ e.button = 1) =>
             /\ (e.idx # NoIndex /\ ~e.shift) =>
                   /\ dragging' /\ selected_index' = e.idx
                   /\ CurveUnchanged
             /\ (e.idx # NoIndex /\ e.shift) =>
                   /\ UNCHANGED <<dragging, selected_index>>
                   /\ ~dragging => ~dragging'
                   /\ UNCHANGED <<points_x, points_y>>
                   /\ colors' = IF e.color # NoColor
                                THEN [colors EXCEPT ![e.idx + 1] = e.color]
                                ELSE colors
             /\ e.idx = NoIndex => CurveUnchanged /\ UNCHANGED editVars]_vars

\* The first point, white at the start, was recolored by a shift press and
\* then pressed without a modifier: it is the selected point of a drag.
C22_Witness ==
    /\ lastOp.op = "on_press" /\ lastOp.index = 0
    /\ dragging /\ selected_index = 0
    /\ Len(colors) >= 2 /\ colors[1] = Red /\ points_x[1] = XMin

\* C23: a secondary-button press on an interior control point removes exactly
\* that point: the curve is one shorter and the other points are as before,
\* in their order; on the first or the last point the curve is unchanged; in
\* both cases neither dragging nor the selection changes, so no drag starts.
C23_SecondaryPress ==
    [][\A e \in EditorPressEvents :
          (on_press(e) /\ ~e.margin /\ ~e.dblclick /\ e.button = 3 /\ e.idx # NoIndex) =>
             /\ IF 0 < e.idx /\ e.idx < NumPoints - 1
                THEN /\ Len(points_x') = NumPoints - 1
                     /\ \A j \in 1..(NumPoints - 1) :
                           LET k == IF j <= e.idx THEN j ELSE j + 1
                           IN  Triple(points_x', points_y', colors', j)
                                  = Triple(points_x, points_y, colors, k)
                ELSE CurveUnchanged
             /\ UNCHANGED <<dragging, selected_index>>
             /\ ~dragging => ~dragging']_vars

\* The interior point of the three-point curve was removed by a right click
\* and nothing is dragged.
C23_Witness ==
    /\ lastOp.op = "remove_point" /\ lastOp.index = 1
    /\ NumPoints = 2
    /\ ~dragging /\ selected_index = NoIndex

\* C24: a double click that hits no point inserts exactly one point: the
\* curve holds the points it held and one more, at the clicked data position
\* clamped to [0, 255] and the clicked opacity clamped to [0, 1], white
\* unless shift is held and the dialog returns a color; dragging, the
\* selection and the histogram scaling are as before, so Idle stays Idle.
C24_DoubleClickInserts ==
    [][\A e \in EditorPressEvents :
          (on_press(e) /\ ~e.margin /\ e.dblclick /\ e.idx = NoIndex) =>
             LET x == Clamp(XMin, display_to_data(log_scale, e.xdata), XMax)
                 y == RClamp(RZero, e.ydata, ROne)
                 c == IF e.shift /\ e.color # NoColor THEN e.color ELSE White
             IN  /\ Len(points_x') = NumPoints + 1
                 /\ PointBag(points_x', points_y', colors')
                       = PointBag(points_x, points_y, colors)
                            (+) One([x |-> x, y |-> y, c |-> c])
                 /\ UNCHANGED <<dragging, selected_index, histogram_scaling>>]_vars

\* A shift double click beyond the right end, with red chosen, put a red
\* point at 255 into a curve that had two points; the editor is Idle.
C24_Witness ==
    /\ lastOp.op = "add_point" /\ lastOp.x = XMax /\ lastOp.c = Red
    /\ NumPoints = 3
    /\ \E i \in 1..NumPoints : points_x[i] = XMax /\ colors[i] = Red
    /\ EditorIdle

\* The event of a motion step that moves a point: the editor is dragging a
\* point of the curve and the histogram is not being scaled.
MovesPoint(m) ==
    /\ on_motion(m[1], m[2])
    /\ dragging /\ ~histogram_scaling
    /\ selected_index # NoIndex /\ ValidIndex(selected_index)

\* The curve after the step holds the points it held, with the selected one
\* at position x and opacity y, its color kept.
SelectedMovedTo(x, y) ==
    LET old == Triple(points_x, points_y, colors, selected_index + 1)
    IN  PointBag(points_x', points_y', colors') (+) One(old)
           = PointBag(points_x, points_y, colors)
                (+) One([x |-> x, y |-> y, c |-> old.c])

\* selected_index after the step is the first index among the points
\* nearest to position x.
ReResolved(x) ==
    /\ selected_index' \in 0..(Len(points_x') - 1)
    /\ \A j \in 0..(Len(points_x') - 1) :
          LET ds == Abs(points_x'[selected_index' + 1] - x)
              dj == Abs(points_x'[j + 1] - x)
          IN  ds <= dj /\ (j < selected_index' => ds < dj)

\* C25 as the claim states it: after a motion event while Dragging the
\* selected point is at the clamped position and opacity of the event, and
\* selected_index is the index of the point nearest that position.
C25_MotionMovesToEvent ==
    [][\A m \in EditorMotions : MovesPoint(m) =>
          LET x == Clamp(XMin, display_to_data(log_scale, m[1]), XMax)
              y == RClamp(RZero, m[2], ROne)
          IN  SelectedMovedTo(x, y) /\ ReResolved(x)]_vars

\* C25, amended: after a motion event while Dragging, an interior selected
\* point is at the clamped position and opacity of the event; a selected
\* first or last point keeps its position 0 or 255 and takes the clamped
\* opacity; selected_index is the first index among the points nearest to
\* the clamped position of the event, and the drag goes on.
C25_MotionMovesSelected ==
    [][\A m \in EditorMotions : MovesPoint(m) =>
          LET x == Clamp(XMin, display_to_data(log_scale, m[1]), XMax)
              y == RClamp(RZero, m[2], ROne)
              pinned == IF selected_index = 0 THEN XMin
                        ELSE IF selected_index = NumPoints - 1 THEN XMax
                        ELSE x
          IN  /\ SelectedMovedTo(pinned, y)
              /\ ReResolved(x)
              /\ dragging']_vars

\* The first point was dragged to position 100: it stayed at 0 with the
\* event's opacity, and the selection went to the point at 100.
C25_Witness ==
    /\ lastOp.op = "update_point" /\ lastOp.index = 0 /\ lastOp.x = Pos(100)
    /\ points_x[1] = XMin /\ points_y[1] = ROne
    /\ dragging /\ selected_index = 1 /\ points_x[2] = Pos(100)

\* C27: the motion events of one drag change one point only.  Of two motion
\* events that follow each other with no press or release between them, the
\* second takes up the point where the first left it: the point it is about
\* to move has the position the first stored (0 or 255 for an endpoint) and
\* the opacity the first stored.
C27_DragMovesOnePoint ==
    [][\A m \in EditorMotions :
          (MovesPoint(m) /\ lastOp.op = "update_point" /\ ValidIndex(lastOp.index)) =>
             LET taken == Triple(points_x, points_y, colors, selected_index + 1)
                 stored == IF lastOp.index = 0 THEN XMin
                           ELSE IF lastOp.index = NumPoints - 1 THEN XMax
                           ELSE lastOp.x
             IN  taken.x = stored /\ taken.y = lastOp.y]_vars

----------------------------------------------------------------------------
(* Properties of the view window *)

\* The cached horizontal view of a canvas lies in [0, 255] and has a width.
ViewWithinRange(c) ==
    /\ RLe(RZero, cached_xlim[c][1])
    /\ RLt(cached_xlim[c][1], cached_xlim[c][2])
    /\ RLe(cached_xlim[c][2], RInt(255))

\* C26: after any sequence of scroll events the cached horizontal view of
\* every editor, the 1D plot and those that use the base scroll handler,
\* satisfies 0 <= xmin < xmax <= 255.
C26_ViewWithinRange == \A c \in Canvases : ViewWithinRange(c)

\* The 1D plot alone keeps its view in the range.
PlotViewWithinRange == ViewWithinRange("plot_canvas")

----------------------------------------------------------------------------
(* Properties of the two editors' synchronisation *)

\* Both editors hold the same curve and no change is under way.
EditorsSynced ==
    /\ tf2d = [xs |-> points_x, ys |-> points_y, cs |-> colors]
    /\ tf_change_source = NoSource

\* C28: after every control-point mutation made in the 1D or the 2D editor,
\* whichever system is active, both editors hold the same positions,
\* opacities and colors and _tf_change_source is None.
C28_EditorsSyncedAfterMutation ==
    [][(<<points_x, points_y, colors>>' # <<points_x, points_y, colors>> \/ tf2d' # tf2d)
          => EditorsSynced']_vars

\* While the point system is active the editors stay in step.
SyncedInPointMode ==
    [][(active_tf_system = "point"
          /\ (<<points_x, points_y, colors>>' # <<points_x, points_y, colors>>
                \/ tf2d' # tf2d))
          => EditorsSynced']_vars

----------------------------------------------------------------------------
(* Properties of the widget manager and of the widget drag *)

\* Every item of the widget list stores an index of the canvas list.
ListItemsValid ==
    \A k \in 1..Len(widget_list) : widget_list[k] \in 0..(Len(widgets) - 1)

\* current_widget is None or a widget of the canvas list.
CurrentWidgetValid ==
    current_widget = NoIndex \/ current_widget \in 0..(Len(widgets) - 1)

\* C29: after any sequence of add, duplicate, delete, Clear All, dataset
\* reload and list selection, every list item's stored index is a valid
\* index into the canvas widget list and current_widget is None or a member
\* of that list.
C29_ManagerRefsValid == ListItemsValid /\ CurrentWidgetValid

\* Without Clear All and dataset loads the list items stay valid.
ListValidWithoutClear == [][~clear_widgets => (ListItemsValid => ListItemsValid')]_vars

\* C30: whenever dragging_widget is true, active_widget is a valid index
\* into the widget list, after any interleaving of press, motion, release,
\* add_widget, remove_widget and clear_widgets.
C30_DragIndexValid ==
    dragging_widget => active_widget \in 0..(Len(widgets) - 1)

\* With presses, motions and releases alone the drag index stays valid.
DragValidWithoutRemoval ==
    [][(Len(widgets') >= Len(widgets) /\ C30_DragIndexValid) => C30_DragIndexValid']_vars

====
